---- MODULE Spec2Model ----
(***************************************************************************)
(* Hybrid text search of the grocery catalog: TextNormalizationService,    *)
(* the synonym index built by buildSearchIndex, and the two versions of    *)
(* HybridSearchEngine (hierarchical fallback, cumulative merge).           *)
(*                                                                         *)
(* Strings are sequences of characters; a character is a one-character     *)
(* string, a combining mark is written by its code point ("U+0301").       *)
(* Scores are hundredths: 1.0 is 100, 0.95 is 95, 0.6 is 60.               *)
(***************************************************************************)
EXTENDS Integers, Sequences, FiniteSets, TLC

\* ------------------------------------------------------------------------
\* Characters
\* ------------------------------------------------------------------------

AsciiLower ==
  {"a","b","c","d","e","f","g","h","i","j","k","l","m",
   "n","o","p","q","r","s","t","u","v","w","x","y","z"}

AsciiUpper ==
  {"A","B","C","D","E","F","G","H","I","J","K","L","M",
   "N","O","P","Q","R","S","T","U","V","W","X","Y","Z"}

Digits == {"0","1","2","3","4","5","6","7","8","9"}

\* String.prototype.toLowerCase, one character at a time.
LowerTable ==
  ("A" :> "a") @@ ("B" :> "b") @@ ("C" :> "c") @@ ("D" :> "d") @@
  ("E" :> "e") @@ ("F" :> "f") @@ ("G" :> "g") @@ ("H" :> "h") @@
  ("I" :> "i") @@ ("J" :> "j") @@ ("K" :> "k") @@ ("L" :> "l") @@
  ("M" :> "m") @@ ("N" :> "n") @@ ("O" :> "o") @@ ("P" :> "p") @@
  ("Q" :> "q") @@ ("R" :> "r") @@ ("S" :> "s") @@ ("T" :> "t") @@
  ("U" :> "u") @@ ("V" :> "v") @@ ("W" :> "w") @@ ("X" :> "x") @@
  ("Y" :> "y") @@ ("Z" :> "z") @@
  ("Á" :> "á") @@ ("É" :> "é") @@ ("Í" :> "í") @@ ("Ó" :> "ó") @@
  ("Ú" :> "ú") @@ ("Ñ" :> "ñ")

ToLowerCaseChar(c) == IF c \in DOMAIN LowerTable THEN LowerTable[c] ELSE c

\* String.prototype.normalize('NFD'): canonical decomposition of a
\* precomposed letter into its base letter and a combining mark.
DecompositionTable ==
  ("á" :> <<"a","U+0301">>) @@ ("é" :> <<"e","U+0301">>) @@
  ("í" :> <<"i","U+0301">>) @@ ("ó" :> <<"o","U+0301">>) @@
  ("ú" :> <<"u","U+0301">>) @@ ("ñ" :> <<"n","U+0303">>) @@
  ("ê" :> <<"e","U+0302">>) @@ ("ã" :> <<"a","U+0303">>) @@
  ("Á" :> <<"A","U+0301">>) @@ ("É" :> <<"E","U+0301">>) @@
  ("Í" :> <<"I","U+0301">>) @@ ("Ó" :> <<"O","U+0301">>) @@
  ("Ú" :> <<"U","U+0301">>) @@ ("Ñ" :> <<"N","U+0303">>)

NFDChar(c) == IF c \in DOMAIN DecompositionTable THEN DecompositionTable[c] ELSE <<c>>

\* The characters of the range U+0300..U+036F that the model uses.
CombiningMarks == {"U+0301", "U+0302", "U+0303"}

\* /\w/ is [A-Za-z0-9_]; /\s/ is white space.
IsWordChar(c) == c \in AsciiLower \cup AsciiUpper \cup Digits \cup {"_"}

IsSpace(c) == c \in {" ", "\t", "\n"}

\* ------------------------------------------------------------------------
\* String helpers (JavaScript String methods on character sequences)
\* ------------------------------------------------------------------------

\* String.prototype.trim
Trim(s) ==
  LET keep == {i \in 1..Len(s) : ~IsSpace(s[i])}
  IN  IF keep = {} THEN <<>>
      ELSE LET lo == CHOOSE i \in keep : \A j \in keep : i <= j
               hi == CHOOSE i \in keep : \A j \in keep : i >= j
           IN  SubSeq(s, lo, hi)

\* String.prototype.toLowerCase
ToLowerCase(s) == [i \in 1..Len(s) |-> ToLowerCaseChar(s[i])]

\* String.prototype.normalize('NFD')
NFD(s) ==
  LET F[i \in 0..Len(s)] == IF i = 0 THEN <<>> ELSE F[i-1] \o NFDChar(s[i])
  IN  F[Len(s)]

IsNotCombiningMark(c) == c \notin CombiningMarks

IsWordOrSpace(c) == IsWordChar(c) \/ IsSpace(c)

\* replace(/\s+/g, ' '): every maximal run of white space becomes one space.
CollapseWhitespace(s) ==
  LET F[i \in 0..Len(s)] ==
        IF i = 0 THEN <<>>
        ELSE IF IsSpace(s[i])
             THEN IF i > 1 /\ IsSpace(s[i-1]) THEN F[i-1] ELSE Append(F[i-1], " ")
             ELSE Append(F[i-1], s[i])
  IN  F[Len(s)]

\* String.prototype.indexOf(sub) >= 0, i.e. String.prototype.includes
Includes(s, sub) ==
  \E i \in 1..(Len(s) - Len(sub) + 1) : SubSeq(s, i, i + Len(sub) - 1) = sub

\* ------------------------------------------------------------------------
\* TextNormalizationService
\* ------------------------------------------------------------------------

OptionNames == {"removeAccents", "toLowerCase", "removeSpecialChars", "trimWhitespace"}

DEFAULT_OPTIONS == [n \in OptionNames |-> TRUE]

\* options is a Partial<NormalizationOptions>: a function on some option names.
normalize(text, opts) ==
  IF text = <<>> THEN <<>>
  ELSE
    LET config == opts @@ DEFAULT_OPTIONS
        s1 == IF config["trimWhitespace"] THEN Trim(text) ELSE text
        s2 == IF config["toLowerCase"] THEN ToLowerCase(s1) ELSE s1
        s3 == IF config["removeAccents"]
              THEN SelectSeq(NFD(s2), IsNotCombiningMark) ELSE s2
        s4 == IF config["removeSpecialChars"]
              THEN SelectSeq(s3, IsWordOrSpace) ELSE s3
    IN  CollapseWhitespace(s4)

NoOptions == <<>>

\* variations.add(v) on a Set kept in insertion order
SetAdd(set, v) == IF \E i \in 1..Len(set) : set[i] = v THEN set ELSE Append(set, v)

\* createSearchVariations(term)
createSearchVariations(term) ==
  LET normalized == normalize(term, NoOptions)
      withoutAccents == normalize(term, [removeAccents |-> TRUE, toLowerCase |-> FALSE])
      lowerCase == normalize(term, [removeAccents |-> FALSE, toLowerCase |-> TRUE])
      variations == SetAdd(SetAdd(SetAdd(SetAdd(<<>>, term), normalized), withoutAccents),
                           lowerCase)
      NonEmpty(v) == Len(v) > 0
  IN  SelectSeq(variations, NonEmpty)

\* ------------------------------------------------------------------------
\* JavaScript objects used as dictionaries: key/value pairs in insertion
\* order, one pair per key
\* ------------------------------------------------------------------------

EmptyObject == <<>>

ObjectKeys(obj) == {obj[i].key : i \in 1..Len(obj)}

ObjectHas(obj, k) == \E i \in 1..Len(obj) : obj[i].key = k

ObjectGet(obj, k) == obj[CHOOSE i \in 1..Len(obj) : obj[i].key = k].value

\* obj[k] = v
ObjectSet(obj, k, v) ==
  IF ObjectHas(obj, k)
  THEN [i \in 1..Len(obj) |-> IF obj[i].key = k THEN [key |-> k, value |-> v] ELSE obj[i]]
  ELSE Append(obj, [key |-> k, value |-> v])

\* ------------------------------------------------------------------------
\* The regional vocabulary (data/synonyms)
\* ------------------------------------------------------------------------

\* synonymsData of the version with product ids
synonymsData == <<
  \* avocado
  [canonical |-> <<"a","v","o","c","a","d","o">>,
   productId |-> "avocado_001",
   synonyms |-> <<
     [term |-> <<"p","a","l","t","a">>, regions |-> << <<"A","R">>, <<"C","L">>, <<"P","E">>, <<"U","Y">> >>],
     [term |-> <<"a","g","u","a","c","a","t","e">>, regions |-> << <<"M","X">>, <<"E","S">>, <<"C","O">>, <<"V","E">>, <<"E","C">> >>]
   >>],
  \* sweet potato
  [canonical |-> <<"s","w","e","e","t"," ","p","o","t","a","t","o">>,
   productId |-> "sweet_potato_006",
   synonyms |-> <<
     [term |-> <<"b","a","t","a","t","a">>, regions |-> << <<"A","R">>, <<"U","Y">> >>],
     [term |-> <<"b","o","n","i","a","t","o">>, regions |-> << <<"E","S">> >>],
     [term |-> <<"c","a","m","o","t","e">>, regions |-> << <<"M","X">>, <<"P","E">> >>],
     [term |-> <<"ñ","a","m","e">>, regions |-> << <<"C","O">>, <<"V","E">> >>],
     [term |-> <<"p","a","p","a"," ","d","u","l","c","e">>, regions |-> << <<"C","L">>, <<"E","C">> >>]
   >>],
  \* potato chips
  [canonical |-> <<"p","o","t","a","t","o"," ","c","h","i","p","s">>,
   productId |-> "chips_009",
   synonyms |-> <<
     [term |-> <<"p","a","p","a","s"," ","f","r","i","t","a","s">>, regions |-> << <<"M","X">>, <<"C","O">>, <<"V","E">>, <<"E","C">> >>],
     [term |-> <<"p","a","t","a","t","a","s"," ","f","r","i","t","a","s">>, regions |-> << <<"E","S">> >>],
     [term |-> <<"p","a","p","i","t","a","s">>, regions |-> << <<"A","R">>, <<"C","L">>, <<"U","Y">> >>],
     [term |-> <<"c","h","i","p","s">>, regions |-> << <<"U","S">>, <<"G","B">> >>]
   >>],
  \* broccoli
  [canonical |-> <<"b","r","o","c","c","o","l","i">>,
   productId |-> "broccoli_001",
   synonyms |-> <<
     [term |-> <<"b","r","ó","c","o","l","i">>, regions |-> << <<"M","X">>, <<"E","S">>, <<"C","O">>, <<"A","R">> >>],
     [term |-> <<"b","r","é","c","o","l">>, regions |-> << <<"E","S">> >>]
   >>],
  \* kale
  [canonical |-> <<"k","a","l","e">>,
   productId |-> "kale_005",
   synonyms |-> <<
     [term |-> <<"c","o","l"," ","r","i","z","a","d","a">>, regions |-> << <<"E","S">>, <<"M","X">>, <<"C","O">> >>],
     [term |-> <<"c","o","l"," ","c","r","e","s","p","a">>, regions |-> << <<"A","R">>, <<"C","L">> >>],
     [term |-> <<"b","e","r","z","a">>, regions |-> << <<"E","S">> >>],
     [term |-> <<"a","c","e","l","g","a"," ","s","i","l","v","e","s","t","r","e">>, regions |-> << <<"E","C">>, <<"P","E">> >>]
   >>],
  \* chia seeds
  [canonical |-> <<"c","h","i","a"," ","s","e","e","d","s">>,
   productId |-> "chia_seeds_008",
   synonyms |-> <<
     [term |-> <<"s","e","m","i","l","l","a","s"," ","d","e"," ","c","h","í","a">>, regions |-> << <<"M","X">>, <<"E","S">>, <<"C","O">>, <<"A","R">> >>],
     [term |-> <<"c","h","í","a">>, regions |-> << <<"M","X">>, <<"G","T">>, <<"S","V">> >>]
   >>],
  \* greek yogurt
  [canonical |-> <<"g","r","e","e","k"," ","y","o","g","u","r","t">>,
   productId |-> "greek_yogurt_007",
   synonyms |-> <<
     [term |-> <<"y","o","g","u","r"," ","g","r","i","e","g","o">>, regions |-> << <<"E","S">>, <<"M","X">>, <<"C","O">>, <<"A","R">> >>],
     [term |-> <<"y","o","g","u","r","t"," ","g","r","i","e","g","o">>, regions |-> << <<"M","X">>, <<"V","E">> >>],
     [term |-> <<"y","o","g","h","u","r","t"," ","g","r","i","e","g","o">>, regions |-> << <<"A","R">>, <<"U","Y">> >>]
   >>],
  \* quinoa
  [canonical |-> <<"q","u","i","n","o","a">>,
   productId |-> "quinoa_002",
   synonyms |-> <<
     [term |-> <<"q","u","i","n","u","a">>, regions |-> << <<"P","E">>, <<"B","O">>, <<"E","C">> >>],
     [term |-> <<"k","i","n","o","a">>, regions |-> << <<"C","L">> >>],
     [term |-> <<"q","u","í","n","o","a">>, regions |-> << <<"E","S">> >>]
   >>],
  \* blueberries
  [canonical |-> <<"b","l","u","e","b","e","r","r","i","e","s">>,
   productId |-> "blueberries_005",
   synonyms |-> <<
     [term |-> <<"a","r","á","n","d","a","n","o","s">>, regions |-> << <<"E","S">>, <<"M","X">>, <<"C","O">>, <<"A","R">> >>],
     [term |-> <<"a","r","á","n","d","a","n","o","s"," ","a","z","u","l","e","s">>, regions |-> << <<"E","S">> >>],
     [term |-> <<"m","i","r","t","i","l","o">>, regions |-> << <<"A","R">>, <<"U","Y">> >>],
     [term |-> <<"b","l","u","e","b","e","r","r","y">>, regions |-> << <<"U","S">>, <<"G","B">> >>]
   >>],
  \* carrot
  [canonical |-> <<"c","a","r","r","o","t">>,
   productId |-> "carrot_004",
   synonyms |-> <<
     [term |-> <<"z","a","n","a","h","o","r","i","a">>, regions |-> << <<"E","S">>, <<"M","X">>, <<"C","O">>, <<"A","R">> >>],
     [term |-> <<"c","a","r","l","o","t","a">>, regions |-> << <<"V","E">> >>],
     [term |-> <<"d","a","u","c","u","s">>, regions |-> << <<"E","S">> >>]
   >>],
  \* banana
  [canonical |-> <<"b","a","n","a","n","a">>,
   productId |-> "banana_010",
   synonyms |-> <<
     [term |-> <<"b","a","n","a","n","a">>, regions |-> << <<"A","R">>, <<"U","Y">>, <<"P","Y">> >>],
     [term |-> <<"b","a","n","a","n","o">>, regions |-> << <<"C","O">>, <<"V","E">>, <<"E","C">>, <<"P","E">> >>],
     [term |-> <<"p","l","á","t","a","n","o">>, regions |-> << <<"M","X">>, <<"E","S">>, <<"G","T">>, <<"S","V">>, <<"H","N">> >>],
     [term |-> <<"c","a","m","b","u","r">>, regions |-> << <<"V","E">> >>],
     [term |-> <<"g","u","i","n","e","o">>, regions |-> << <<"D","O">>, <<"P","R">>, <<"C","U">> >>]
   >>],
  \* apple
  [canonical |-> <<"a","p","p","l","e">>,
   productId |-> "apple_002",
   synonyms |-> <<
     [term |-> <<"m","a","n","z","a","n","a">>, regions |-> << <<"M","X">>, <<"E","S">>, <<"C","O">>, <<"A","R">>, <<"V","E">>, <<"E","C">> >>],
     [term |-> <<"p","o","m","a">>, regions |-> << <<"C","L">> >>]
   >>],
  \* spinach
  [canonical |-> <<"s","p","i","n","a","c","h">>,
   productId |-> "spinach_003",
   synonyms |-> <<
     [term |-> <<"e","s","p","i","n","a","c","a">>, regions |-> << <<"M","X">>, <<"E","S">>, <<"C","O">>, <<"A","R">>, <<"V","E">>, <<"E","C">> >>],
     [term |-> <<"e","s","p","i","n","a","f","r","e">>, regions |-> << <<"B","R">> >>]
   >>],
  \* cauliflower
  [canonical |-> <<"c","a","u","l","i","f","l","o","w","e","r">>,
   productId |-> "cauliflower_006",
   synonyms |-> <<
     [term |-> <<"c","o","l","i","f","l","o","r">>, regions |-> << <<"M","X">>, <<"E","S">>, <<"C","O">>, <<"A","R">>, <<"V","E">>, <<"E","C">> >>],
     [term |-> <<"c","o","u","v","e","-","f","l","o","r">>, regions |-> << <<"B","R">> >>]
   >>],
  \* brussels sprouts
  [canonical |-> <<"b","r","u","s","s","e","l","s"," ","s","p","r","o","u","t","s">>,
   productId |-> "brussels_007",
   synonyms |-> <<
     [term |-> <<"c","o","l","e","s"," ","d","e"," ","b","r","u","s","e","l","a","s">>, regions |-> << <<"E","S">>, <<"M","X">>, <<"C","O">>, <<"A","R">> >>],
     [term |-> <<"r","e","p","o","l","l","i","t","a","s"," ","d","e"," ","b","r","u","s","e","l","a","s">>, regions |-> << <<"A","R">>, <<"C","L">> >>],
     [term |-> <<"c","o","u","v","i","n","h","a"," ","d","e"," ","b","r","u","x","e","l","a","s">>, regions |-> << <<"B","R">> >>]
   >>],
  \* pear
  [canonical |-> <<"p","e","a","r">>,
   productId |-> "pear_008",
   synonyms |-> <<
     [term |-> <<"p","e","r","a">>, regions |-> << <<"M","X">>, <<"E","S">>, <<"C","O">>, <<"A","R">>, <<"V","E">>, <<"E","C">> >>],
     [term |-> <<"p","ê","r","a">>, regions |-> << <<"B","R">> >>]
   >>],
  \* orange
  [canonical |-> <<"o","r","a","n","g","e">>,
   productId |-> "orange_009",
   synonyms |-> <<
     [term |-> <<"n","a","r","a","n","j","a">>, regions |-> << <<"M","X">>, <<"E","S">>, <<"C","O">>, <<"A","R">>, <<"V","E">>, <<"E","C">> >>],
     [term |-> <<"c","h","i","n","a">>, regions |-> << <<"P","R">>, <<"D","O">> >>],
     [term |-> <<"l","a","r","a","n","j","a">>, regions |-> << <<"B","R">> >>]
   >>],
  \* salmon
  [canonical |-> <<"s","a","l","m","o","n">>,
   productId |-> "salmon_003",
   synonyms |-> <<
     [term |-> <<"s","a","l","m","ó","n">>, regions |-> << <<"M","X">>, <<"E","S">>, <<"C","O">>, <<"A","R">>, <<"V","E">>, <<"E","C">> >>],
     [term |-> <<"s","a","l","m","ã","o">>, regions |-> << <<"B","R">> >>]
   >>],
  \* almonds
  [canonical |-> <<"a","l","m","o","n","d","s">>,
   productId |-> "almonds_004",
   synonyms |-> <<
     [term |-> <<"a","l","m","e","n","d","r","a","s">>, regions |-> << <<"M","X">>, <<"E","S">>, <<"C","O">>, <<"A","R">>, <<"V","E">>, <<"E","C">> >>],
     [term |-> <<"a","m","ê","n","d","o","a","s">>, regions |-> << <<"B","R">> >>]
   >>],
  \* popcorn
  [canonical |-> <<"p","o","p","c","o","r","n">>,
   productId |-> "chips_009",
   synonyms |-> <<
     [term |-> <<"p","a","l","o","m","i","t","a","s"," ","d","e"," ","m","a","í","z">>, regions |-> << <<"M","X">>, <<"E","S">>, <<"C","O">>, <<"V","E">> >>],
     [term |-> <<"p","a","l","o","m","i","t","a","s">>, regions |-> << <<"M","X">>, <<"E","S">> >>],
     [term |-> <<"p","o","c","h","o","c","l","o">>, regions |-> << <<"A","R">>, <<"U","Y">> >>],
     [term |-> <<"c","a","n","g","u","i","l">>, regions |-> << <<"E","C">>, <<"P","E">> >>],
     [term |-> <<"c","o","t","u","f","a","s">>, regions |-> << <<"V","E">> >>],
     [term |-> <<"c","r","i","s","p","e","t","a","s">>, regions |-> << <<"C","O">> >>],
     [term |-> <<"p","o","r","o","r","ó">>, regions |-> << <<"B","R">> >>],
     [term |-> <<"r","o","s","i","t","a","s"," ","d","e"," ","m","a","í","z">>, regions |-> << <<"G","T">>, <<"S","V">>, <<"H","N">> >>]
   >>]
>>

\* synonymsData of the version keyed by Spanish canonical terms
synonymsData2 == <<
  \* palomitas de maíz
  [canonical |-> <<"p","a","l","o","m","i","t","a","s"," ","d","e"," ","m","a","í","z">>,
   synonyms |-> <<
     [term |-> <<"c","a","n","g","u","i","l">>, regions |-> << <<"E","C">> >>],
     [term |-> <<"p","o","c","h","o","c","l","o">>, regions |-> << <<"A","R">>, <<"U","Y">> >>],
     [term |-> <<"p","o","r","o","r","ó">>, regions |-> << <<"P","Y">> >>],
     [term |-> <<"c","r","i","s","p","e","t","a","s">>, regions |-> << <<"C","O">> >>],
     [term |-> <<"c","o","t","u","f","a","s">>, regions |-> << <<"V","E">> >>],
     [term |-> <<"r","o","s","i","t","a","s">>, regions |-> << <<"M","X">> >>],
     [term |-> <<"p","o","p","c","o","r","n">>, regions |-> << <<"U","S">>, <<"G","B">> >>]
   >>],
  \* aguacate
  [canonical |-> <<"a","g","u","a","c","a","t","e">>,
   synonyms |-> <<
     [term |-> <<"p","a","l","t","a">>, regions |-> << <<"A","R">>, <<"C","L">>, <<"P","E">>, <<"U","Y">> >>],
     [term |-> <<"a","v","o","c","a","d","o">>, regions |-> << <<"U","S">>, <<"G","B">> >>]
   >>],
  \* papa
  [canonical |-> <<"p","a","p","a">>,
   synonyms |-> <<
     [term |-> <<"p","a","t","a","t","a">>, regions |-> << <<"E","S">> >>],
     [term |-> <<"p","o","t","a","t","o">>, regions |-> << <<"U","S">>, <<"G","B">> >>]
   >>],
  \* frijol
  [canonical |-> <<"f","r","i","j","o","l">>,
   synonyms |-> <<
     [term |-> <<"j","u","d","í","a">>, regions |-> << <<"E","S">> >>],
     [term |-> <<"a","l","u","b","i","a">>, regions |-> << <<"E","S">> >>],
     [term |-> <<"p","o","r","o","t","o">>, regions |-> << <<"A","R">>, <<"C","L">>, <<"U","Y">> >>],
     [term |-> <<"c","a","r","a","o","t","a">>, regions |-> << <<"V","E">> >>],
     [term |-> <<"h","a","b","i","c","h","u","e","l","a">>, regions |-> << <<"C","O">>, <<"D","O">> >>],
     [term |-> <<"b","e","a","n">>, regions |-> << <<"U","S">>, <<"G","B">> >>]
   >>],
  \* piña
  [canonical |-> <<"p","i","ñ","a">>,
   synonyms |-> <<
     [term |-> <<"a","n","a","n","á">>, regions |-> << <<"A","R">>, <<"P","Y">>, <<"U","Y">> >>],
     [term |-> <<"a","b","a","c","a","x","i">>, regions |-> << <<"B","R">> >>],
     [term |-> <<"p","i","n","e","a","p","p","l","e">>, regions |-> << <<"U","S">>, <<"G","B">> >>]
   >>],
  \* durazno
  [canonical |-> <<"d","u","r","a","z","n","o">>,
   synonyms |-> <<
     [term |-> <<"m","e","l","o","c","o","t","ó","n">>, regions |-> << <<"E","S">> >>],
     [term |-> <<"p","é","r","s","i","c","o">>, regions |-> << <<"A","R">> >>],
     [term |-> <<"p","e","a","c","h">>, regions |-> << <<"U","S">>, <<"G","B">> >>]
   >>],
  \* fresa
  [canonical |-> <<"f","r","e","s","a">>,
   synonyms |-> <<
     [term |-> <<"f","r","u","t","i","l","l","a">>, regions |-> << <<"A","R">>, <<"C","L">>, <<"U","Y">> >>],
     [term |-> <<"s","t","r","a","w","b","e","r","r","y">>, regions |-> << <<"U","S">>, <<"G","B">> >>]
   >>],
  \* maíz
  [canonical |-> <<"m","a","í","z">>,
   synonyms |-> <<
     [term |-> <<"c","h","o","c","l","o">>, regions |-> << <<"A","R">>, <<"C","L">>, <<"P","E">>, <<"E","C">> >>],
     [term |-> <<"e","l","o","t","e">>, regions |-> << <<"M","X">>, <<"G","T">>, <<"S","V">> >>],
     [term |-> <<"j","o","j","o","t","o">>, regions |-> << <<"V","E">> >>],
     [term |-> <<"m","a","z","o","r","c","a">>, regions |-> << <<"C","O">> >>],
     [term |-> <<"c","o","r","n">>, regions |-> << <<"U","S">>, <<"G","B">> >>]
   >>],
  \* guisante
  [canonical |-> <<"g","u","i","s","a","n","t","e">>,
   synonyms |-> <<
     [term |-> <<"c","h","í","c","h","a","r","o">>, regions |-> << <<"M","X">> >>],
     [term |-> <<"a","r","v","e","j","a">>, regions |-> << <<"A","R">>, <<"C","O">>, <<"P","E">> >>],
     [term |-> <<"p","e","t","i","t"," ","p","o","i","s">>, regions |-> << <<"E","S">> >>],
     [term |-> <<"p","e","a">>, regions |-> << <<"U","S">>, <<"G","B">> >>]
   >>],
  \* judía verde
  [canonical |-> <<"j","u","d","í","a"," ","v","e","r","d","e">>,
   synonyms |-> <<
     [term |-> <<"e","j","o","t","e">>, regions |-> << <<"M","X">> >>],
     [term |-> <<"v","a","i","n","i","t","a">>, regions |-> << <<"P","E">>, <<"E","C">> >>],
     [term |-> <<"h","a","b","i","c","h","u","e","l","a"," ","t","i","e","r","n","a">>, regions |-> << <<"C","O">> >>],
     [term |-> <<"p","o","r","o","t","o"," ","v","e","r","d","e">>, regions |-> << <<"A","R">>, <<"C","L">> >>],
     [term |-> <<"g","r","e","e","n"," ","b","e","a","n">>, regions |-> << <<"U","S">> >>],
     [term |-> <<"f","r","e","n","c","h"," ","b","e","a","n">>, regions |-> << <<"G","B">> >>]
   >>]
>>

countries ==
  (<<"A","R">> :> <<"A","r","g","e","n","t","i","n","a">>) @@  \* AR: Argentina
  (<<"M","X">> :> <<"M","é","x","i","c","o">>) @@  \* MX: México
  (<<"E","S">> :> <<"E","s","p","a","ñ","a">>) @@  \* ES: España
  (<<"C","O">> :> <<"C","o","l","o","m","b","i","a">>) @@  \* CO: Colombia
  (<<"E","C">> :> <<"E","c","u","a","d","o","r">>) @@  \* EC: Ecuador
  (<<"P","E">> :> <<"P","e","r","ú">>) @@  \* PE: Perú
  (<<"C","L">> :> <<"C","h","i","l","e">>) @@  \* CL: Chile
  (<<"V","E">> :> <<"V","e","n","e","z","u","e","l","a">>) @@  \* VE: Venezuela
  (<<"U","Y">> :> <<"U","r","u","g","u","a","y">>) @@  \* UY: Uruguay
  (<<"P","Y">> :> <<"P","a","r","a","g","u","a","y">>) @@  \* PY: Paraguay
  (<<"D","O">> :> <<"R","e","p","ú","b","l","i","c","a"," ","D","o","m","i","n","i","c","a","n","a">>) @@  \* DO: República Dominicana
  (<<"G","T">> :> <<"G","u","a","t","e","m","a","l","a">>) @@  \* GT: Guatemala
  (<<"S","V">> :> <<"E","l"," ","S","a","l","v","a","d","o","r">>) @@  \* SV: El Salvador
  (<<"B","R">> :> <<"B","r","a","s","i","l">>) @@  \* BR: Brasil
  (<<"U","S">> :> <<"E","s","t","a","d","o","s"," ","U","n","i","d","o","s">>) @@  \* US: Estados Unidos
  (<<"G","B">> :> <<"R","e","i","n","o"," ","U","n","i","d","o">>)  \* GB: Reino Unido

\* getCountryName: countries[regionCode] || regionCode
getCountryName(regionCode) ==
  IF regionCode \in DOMAIN countries THEN countries[regionCode] ELSE regionCode

\* The entry written for a canonical term: confidence 1.0, no regionInfo.
CanonicalEntry(canonical, productId) ==
  [canonical |-> canonical, productId |-> productId, confidence |-> 100]

\* The entry of a synonym with regionInfo taken from the last region listed.
SynonymEntryLastRegion(canonical, productId, regions) ==
  [canonical |-> canonical, productId |-> productId, confidence |-> 90,
   regionInfo |-> [region |-> regions[Len(regions)],
                   country |-> getCountryName(regions[Len(regions)]),
                   language |-> IF Len(regions[Len(regions)]) = 2 THEN "es" ELSE "en"]]

\* The entry written for a synonym: confidence 0.9, regionInfo of regions[0].
SynonymEntry(canonical, productId, regions) ==
  [canonical |-> canonical, productId |-> productId, confidence |-> 90,
   regionInfo |-> [region |-> regions[1],
                   country |-> getCountryName(regions[1]),
                   language |-> IF Len(regions[1]) = 2 THEN "es" ELSE "en"]]

\* The key a term is stored under: term.toLowerCase()
IndexKey(term) == ToLowerCase(term)

\* The assignments searchIndex[key] = entry that one iteration of the outer
\* forEach makes, in order: the canonical term, then each synonym.
GroupWrites(canonical, productId, synonyms) ==
  <<[key |-> IndexKey(canonical), value |-> CanonicalEntry(canonical, productId)]>>
    \o [s \in 1..Len(synonyms) |->
          [key |-> IndexKey(synonyms[s].term),
           value |-> SynonymEntry(canonical, productId, synonyms[s].regions)]]

\* The object a sequence of assignments obj[key] = value leaves, starting
\* from {}: a key stands where it was first assigned and holds the value
\* assigned last.
AssignAll(writes) ==
  LET n == Len(writes)
      IsFirst(i) == \A j \in 1..(i - 1) : writes[j].key # writes[i].key
      LastOf(k) == CHOOSE i \in 1..n :
                     /\ writes[i].key = k
                     /\ \A j \in (i + 1)..n : writes[j].key # k
      firsts == SelectSeq([i \in 1..n |-> i], IsFirst)
  IN  [p \in 1..Len(firsts) |->
         [key |-> writes[firsts[p]].key,
          value |-> writes[LastOf(writes[firsts[p]].key)].value]]

EmptyDatabase == [searchIndex |-> EmptyObject, metadata |-> EmptyObject]

\* The database the two forEach loops build from data, productIds[i] being
\* the productId of the i-th group.
BuildIndex(data, productIds) ==
  LET W[i \in 0..Len(data)] ==
        IF i = 0 THEN <<>>
        ELSE W[i-1] \o GroupWrites(data[i].canonical, productIds[i], data[i].synonyms)
  IN  [searchIndex |-> AssignAll(W[Len(data)]),
       metadata |->
         AssignAll([i \in 1..Len(data) |->
                      [key |-> productIds[i],
                       value |-> [canonical |-> data[i].canonical,
                                  regions |-> data[i].synonyms]]])]

\* buildSearchIndex of the version with product ids: productId is
\* data.productId (every group has one).
buildSearchIndex ==
  BuildIndex(synonymsData, [i \in 1..Len(synonymsData) |-> synonymsData[i].productId])

\* buildSearchIndex of the version keyed by Spanish canonical terms:
\* productId is `product_${productCounter++}`.
buildSearchIndex2 ==
  BuildIndex(synonymsData2, [i \in 1..Len(synonymsData2) |-> [product |-> i]])

\* ------------------------------------------------------------------------
\* SynonymService
\* ------------------------------------------------------------------------

\* The index is an object written {}: besides its own keys, this.searchIndex[k]
\* finds what the object inherits from Object.prototype.
ObjectPrototypeKeys ==
  {<<"c","o","n","s","t","r","u","c","t","o","r">>,
   <<"_","_","p","r","o","t","o","_","_">>,
   <<"t","o","S","t","r","i","n","g">>,
   <<"v","a","l","u","e","O","f">>,
   <<"h","a","s","O","w","n","P","r","o","p","e","r","t","y">>}

\* An inherited value: a function or an object, which is truthy and has none
\* of the fields of a SynonymEntry.
InheritedValue(k) == [inherited |-> k]

\* Whether this.searchIndex[k] is truthy (every value it can hold is an object).
IndexHas(searchIndex, k) ==
  ObjectHas(searchIndex, k) \/ k \in ObjectPrototypeKeys

\* this.searchIndex[k], where IndexHas
IndexGet(searchIndex, k) ==
  IF ObjectHas(searchIndex, k) THEN ObjectGet(searchIndex, k) ELSE InheritedValue(k)

\* undefined and null where a string is expected; a string is a sequence of
\* single characters, so neither is one.
Undefined == <<"undefined">>

Null == <<"null">>

\* entry.canonical
CanonicalOf(entry) == IF "canonical" \in DOMAIN entry THEN entry.canonical ELSE Undefined

\* { canonicalTerm: entry.canonical, originalTerm, confidence: entry.confidence,
\*   regionInfo: entry.regionInfo }; a field whose value is undefined is left out.
SynonymMatch(entry, originalTerm) ==
  [originalTerm |-> originalTerm]
    @@ (IF "canonical" \in DOMAIN entry THEN [canonicalTerm |-> entry.canonical] ELSE <<>>)
    @@ (IF "confidence" \in DOMAIN entry THEN [confidence |-> entry.confidence] ELSE <<>>)
    @@ (IF "regionInfo" \in DOMAIN entry THEN [regionInfo |-> entry.regionInfo] ELSE <<>>)

\* findSynonyms(term) over the index: at most one match.
findSynonyms(searchIndex, term) ==
  IF term = <<>> \/ Len(Trim(term)) = 0 THEN <<>>
  ELSE LET normalizedTerm == normalize(term, NoOptions)
       IN  IF IndexHas(searchIndex, normalizedTerm)
           THEN <<SynonymMatch(IndexGet(searchIndex, normalizedTerm), term)>>
           ELSE <<>>

\* hasSynonyms(term): !!this.searchIndex[normalizedTerm]
hasSynonyms(searchIndex, term) == IndexHas(searchIndex, normalize(term, NoOptions))

\* getCanonicalTerm(term): entry ? entry.canonical : null
getCanonicalTerm(searchIndex, term) ==
  LET normalizedTerm == normalize(term, NoOptions)
  IN  IF IndexHas(searchIndex, normalizedTerm)
      THEN CanonicalOf(IndexGet(searchIndex, normalizedTerm))
      ELSE Null

\* findAllVariations(canonicalTerm): Object.entries visits the index's own
\* keys in insertion order.
findAllVariations(searchIndex, canonicalTerm) ==
  LET normalizedCanonical == normalize(canonicalTerm, NoOptions)
      Mapped(i) ==
        /\ normalize(searchIndex[i].value.canonical, NoOptions) = normalizedCanonical
        /\ searchIndex[i].key # normalizedCanonical
      hits == SelectSeq([i \in 1..Len(searchIndex) |-> i], Mapped)
  IN  [p \in 1..Len(hits) |->
         SynonymMatch(searchIndex[hits[p]].value, searchIndex[hits[p]].key)]

\* getRegionInfo(term): entry?.regionInfo || null
getRegionInfo(searchIndex, term) ==
  LET normalizedTerm == normalize(term, NoOptions)
  IN  IF IndexHas(searchIndex, normalizedTerm)
        /\ "regionInfo" \in DOMAIN IndexGet(searchIndex, normalizedTerm)
      THEN IndexGet(searchIndex, normalizedTerm)["regionInfo"]
      ELSE Null

\* getStats(): Object.keys and Object.values visit the index's own entries
getStats(searchIndex) ==
  [totalTerms |-> Len(searchIndex),
   withRegionInfo |->
     Cardinality({i \in 1..Len(searchIndex) : "regionInfo" \in DOMAIN searchIndex[i].value})]

\* A getInstance that constructs a service on every call
getInstanceAlwaysNew(inst, count) == [instance |-> count + 1, constructed |-> count + 1]

\* static getInstance(): constructs the service unless this.instance is set;
\* the static field and the number of services constructed after the call.
getInstance(inst, count) ==
  IF inst = 0
  THEN [instance |-> count + 1, constructed |-> count + 1]
  ELSE [instance |-> inst, constructed |-> count]

\* ------------------------------------------------------------------------
\* HybridSearchEngine: items, results, options
\* ------------------------------------------------------------------------

\* (item as any).category || ''
CategoryOf(item) == IF "category" \in DOMAIN item THEN item.category ELSE <<>>

\* A number used as a condition: 0 (like undefined) is falsy.
Truthy(n) == n # 0

\* options.minScore / options.maxResults; an option left out reads undefined,
\* which every use below treats like 0.
MinScoreOf(options) == IF "minScore" \in DOMAIN options THEN options["minScore"] ELSE 0

MaxResultsOf(options) == IF "maxResults" \in DOMAIN options THEN options["maxResults"] ELSE 0

SearchResult(item, score, matchType, matchedTerms, originalQuery) ==
  [item |-> item, score |-> score, matchType |-> matchType,
   matchedTerms |-> matchedTerms, originalQuery |-> originalQuery]

\* The results left in the order the steps produced them.
InsertionOrder(results) == results

\* A descending sort that is not stable: a result goes before the results of
\* equal score met earlier.
SortByScoreDescUnstable(results) ==
  LET Insert(sorted, r) ==
        LET before == {i \in 1..Len(sorted) : sorted[i].score > r.score}
            n == Cardinality(before)
        IN  SubSeq(sorted, 1, n) \o <<r>> \o SubSeq(sorted, n + 1, Len(sorted))
      F[i \in 0..Len(results)] == IF i = 0 THEN <<>> ELSE Insert(F[i-1], results[i])
  IN  F[Len(results)]

\* Array.prototype.sort((a, b) => b.score - a.score): descending by score,
\* stable (equal scores keep their order).
SortByScoreDesc(results) ==
  LET Insert(sorted, r) ==
        LET before == {i \in 1..Len(sorted) : sorted[i].score >= r.score}
            n == Cardinality(before)
        IN  SubSeq(sorted, 1, n) \o <<r>> \o SubSeq(sorted, n + 1, Len(sorted))
      F[i \in 0..Len(results)] == IF i = 0 THEN <<>> ELSE Insert(F[i-1], results[i])
  IN  F[Len(results)]

\* The filter with > for >=: a result scoring exactly minScore is dropped.
FilterMinScoreStrict(results, options) ==
  LET Keep(r) == ~Truthy(MinScoreOf(options)) \/ r.score > MinScoreOf(options)
  IN  SelectSeq(results, Keep)

\* filter(result => !options.minScore || result.score >= options.minScore)
FilterMinScore(results, options) ==
  LET Keep(r) == ~Truthy(MinScoreOf(options)) \/ r.score >= MinScoreOf(options)
  IN  SelectSeq(results, Keep)

\* options.maxResults ? list.slice(0, options.maxResults) : list
SliceMaxResults(results, options) ==
  IF Truthy(MaxResultsOf(options))
  THEN SubSeq(results, 1, IF MaxResultsOf(options) < Len(results)
                          THEN MaxResultsOf(options) ELSE Len(results))
  ELSE results

limitAndSort(results, options) ==
  SliceMaxResults(SortByScoreDesc(FilterMinScore(results, options)), options)

\* ------------------------------------------------------------------------
\* Fuse.js, as the engine sees it
\* ------------------------------------------------------------------------

\* new Fuse(items, getFuseConfig()): an index over the documents given.
NewFuse(docs) == [docs |-> docs]

\* What Fuse may report for a document it matches: its distance (0 is a
\* perfect match, 0.4 the threshold) and the keys that matched.
FuseHits == {[score |-> 0, keys |-> <<"name">>],
             [score |-> 30, keys |-> <<"name", "category">>]}

\* The value Fuse reports for a matched key of a document.
FuseMatchValue(doc, key) == IF key = "name" THEN doc.name ELSE CategoryOf(doc)

\* fuse.search(query): one result at most per document, sorted by score
\* (shouldSort), documents of equal score in index order. Which documents
\* match, and how well, is the library's choice.
FuseOutcomes(fuse) ==
  LET n == Len(fuse.docs)
      ByScore(hit) ==
        LET idx == {i \in DOMAIN hit : TRUE}
            Rank(i) == Cardinality({j \in idx : hit[j].score < hit[i].score
                                              \/ (hit[j].score = hit[i].score /\ j < i)})
        IN  [k \in 1..Cardinality(idx) |->
               LET i == CHOOSE i \in idx : Rank(i) = k - 1
               IN  [item |-> fuse.docs[i], refIndex |-> i, score |-> hit[i].score,
                    matches |-> [m \in 1..Len(hit[i].keys) |->
                                   [key |-> hit[i].keys[m],
                                    value |-> FuseMatchValue(fuse.docs[i], hit[i].keys[m])]]]]
  IN  {ByScore(hit) : hit \in UNION {[D -> FuseHits] : D \in SUBSET (1..n)}}

\* A fuzzy score that grows with the distance: (1 + score) * 0.8
FuzzyScoreGrowing(score) == ((100 + score) * 8) \div 10

\* Math.max(0, (1 - score) * 0.8)
FuzzyScore(score) ==
  LET v == ((100 - score) * 8) \div 10 IN IF v > 0 THEN v ELSE 0

\* fuseResult.matches.map(match => match.value || '')
FuzzyMatchedTerms(fuseResult) ==
  [m \in 1..Len(fuseResult.matches) |-> fuseResult.matches[m].value]

FuzzyResult(fuseResult, query) ==
  SearchResult(fuseResult.item, FuzzyScore(fuseResult.score), "fuzzy",
               FuzzyMatchedTerms(fuseResult), query)

\* ------------------------------------------------------------------------
\* HybridSearchEngine, hierarchical version
\* ------------------------------------------------------------------------

\* What the loop body of getExactMatches pushes for one item.
ExactMatchesOfItem(item, query, normalizedQuery) ==
  LET normalizedName == normalize(item.name, NoOptions)
      normalizedCategory == normalize(CategoryOf(item), NoOptions)
  IN  IF normalizedName = normalizedQuery
      THEN <<SearchResult(item, 100, "exact", <<item.name>>, query)>>
      ELSE IF normalizedCategory = normalizedQuery
           THEN <<SearchResult(item, 95, "exact", <<CategoryOf(item)>>, query)>>
           ELSE <<>>

getExactMatches(items, query, normalizedQuery) ==
  LET F[i \in 0..Len(items)] ==
        IF i = 0 THEN <<>>
        ELSE F[i-1] \o ExactMatchesOfItem(items[i], query, normalizedQuery)
  IN  F[Len(items)]

getFuzzyMatches(fuseResults, query) ==
  [i \in 1..Len(fuseResults) |-> FuzzyResult(fuseResults[i], query)]

\* What the loop body of getPartialMatches pushes for one item.
PartialMatchesOfItem(item, normalizedQuery) ==
  LET normalizedName == normalize(item.name, NoOptions)
      normalizedCategory == normalize(CategoryOf(item), NoOptions)
      inName == Includes(normalizedName, normalizedQuery)
      inCategory == Includes(normalizedCategory, normalizedQuery)
      matchScore == IF inName THEN 60 ELSE IF inCategory THEN 50 ELSE 0
      matchedTerms == (IF inName THEN <<item.name>> ELSE <<>>)
                        \o (IF inCategory THEN <<CategoryOf(item)>> ELSE <<>>)
  IN  IF matchScore > 0
      THEN <<SearchResult(item, matchScore, "partial", matchedTerms, normalizedQuery)>>
      ELSE <<>>

getPartialMatches(items, normalizedQuery) ==
  LET F[i \in 0..Len(items)] ==
        IF i = 0 THEN <<>> ELSE F[i-1] \o PartialMatchesOfItem(items[i], normalizedQuery)
  IN  F[Len(items)]

\* The guard without trim(): only the empty string is blank.
IsBlankNoTrim(query) == query = <<>>

\* !query || query.trim().length === 0
IsBlank(query) == query = <<>> \/ Len(Trim(query)) = 0

\* ------------------------------------------------------------------------
\* HybridSearchEngine, cumulative version: results is a Map keyed by item id
\* ------------------------------------------------------------------------

exactSearch(items, query, normalizedQuery, results) ==
  LET F[i \in 0..Len(items)] ==
        IF i = 0 THEN results
        ELSE LET found == ExactMatchesOfItem(items[i], query, normalizedQuery)
             IN  IF found = <<>> THEN F[i-1]
                 ELSE ObjectSet(F[i-1], items[i].id, found[1])
  IN  F[Len(items)]

\* fuzzySearch without the test of the existing result's matchType: a Fuse
\* result replaces whatever the Map holds under the item's id.
fuzzySearchOverwriting(fuseResults, query, results) ==
  LET F[i \in 0..Len(fuseResults)] ==
        IF i = 0 THEN results
        ELSE ObjectSet(F[i-1], fuseResults[i].item.id, FuzzyResult(fuseResults[i], query))
  IN  F[Len(fuseResults)]

\* fuzzySearch without the look-up of an existing result: every Fuse result
\* is added under a fresh entry, as pushing to an array would.
fuzzySearchPush(fuseResults, query, results) ==
  results \o [i \in 1..Len(fuseResults) |->
                [key |-> fuseResults[i].item.id,
                 value |-> FuzzyResult(fuseResults[i], query)]]

fuzzySearch(fuseResults, query, results) ==
  LET F[i \in 0..Len(fuseResults)] ==
        IF i = 0 THEN results
        ELSE LET item == fuseResults[i].item
                 fuzzyScore == FuzzyScore(fuseResults[i].score)
                 replace ==
                   \/ ~ObjectHas(F[i-1], item.id)
                   \/ /\ ObjectGet(F[i-1], item.id).matchType = "partial"
                      /\ fuzzyScore > ObjectGet(F[i-1], item.id).score
             IN  IF replace
                 THEN ObjectSet(F[i-1], item.id, FuzzyResult(fuseResults[i], query))
                 ELSE F[i-1]
  IN  F[Len(fuseResults)]

partialSearch(items, normalizedQuery, results) ==
  LET F[i \in 0..Len(items)] ==
        IF i = 0 THEN results
        ELSE LET skip == /\ ObjectHas(F[i-1], items[i].id)
                         /\ ObjectGet(F[i-1], items[i].id).matchType # "partial"
                 found == PartialMatchesOfItem(items[i], normalizedQuery)
             IN  IF skip \/ found = <<>> THEN F[i-1]
                 ELSE ObjectSet(F[i-1], items[i].id, found[1])
  IN  F[Len(items)]

\* Array.from(results.values())
MapValues(results) == [i \in 1..Len(results) |-> results[i].value]

\* ------------------------------------------------------------------------
\* search, as a function of the engine's items, of what this.fuse.search
\* returns if it is called, of the query and of the options: the steps run
\* and the value returned
\* ------------------------------------------------------------------------

\* Whether search (hierarchical version) reaches this.fuse.search(query).
CallsFuse(items, query) ==
  /\ ~IsBlank(query)
  /\ Len(getExactMatches(items, query, normalize(query, NoOptions))) = 0

\* search with the fuzzy and partial steps in the other order: substring
\* matches answer before Fuse is consulted.
searchPartialFirst(items, fuseFound, query, options) ==
  IF IsBlank(query) THEN [tiersRun |-> <<>>, result |-> <<>>]
  ELSE
    LET normalizedQuery == normalize(query, NoOptions)
        exactResults == getExactMatches(items, query, normalizedQuery)
        fuzzyResults == getFuzzyMatches(fuseFound, query)
        partialResults == getPartialMatches(items, normalizedQuery)
    IN  IF Len(exactResults) > 0
        THEN [tiersRun |-> <<"exact">>,
              result |-> limitAndSort(exactResults, options)]
        ELSE IF Len(partialResults) > 0
        THEN [tiersRun |-> <<"exact", "fuzzy", "partial">>,
              result |-> limitAndSort(partialResults, options)]
        ELSE [tiersRun |-> <<"exact", "fuzzy">>,
              result |-> limitAndSort(fuzzyResults, options)]

search(items, fuseFound, query, options) ==
  IF IsBlank(query) THEN [tiersRun |-> <<>>, result |-> <<>>]
  ELSE
    LET normalizedQuery == normalize(query, NoOptions)
        exactResults == getExactMatches(items, query, normalizedQuery)
        fuzzyResults == getFuzzyMatches(fuseFound, query)
        partialResults == getPartialMatches(items, normalizedQuery)
    IN  IF Len(exactResults) > 0
        THEN [tiersRun |-> <<"exact">>,
              result |-> limitAndSort(exactResults, options)]
        ELSE IF Len(fuzzyResults) > 0
        THEN [tiersRun |-> <<"exact", "fuzzy">>,
              result |-> limitAndSort(fuzzyResults, options)]
        ELSE [tiersRun |-> <<"exact", "fuzzy", "partial">>,
              result |-> limitAndSort(partialResults, options)]

\* The Map the three steps of the cumulative version leave.
MergedResults(items, fuseFound, query) ==
  LET normalizedQuery == normalize(query, NoOptions)
  IN  partialSearch(items, normalizedQuery,
        fuzzySearch(fuseFound, query,
          exactSearch(items, query, normalizedQuery, EmptyObject)))

searchCumulative(items, fuseFound, query, options) ==
  IF IsBlank(query) THEN [tiersRun |-> <<>>, result |-> <<>>]
  ELSE [tiersRun |-> <<"exact", "fuzzy", "partial">>,
        result |-> SliceMaxResults(
                     SortByScoreDesc(
                       FilterMinScore(MapValues(MergedResults(items, fuseFound, query)),
                                      options)),
                     options)]

\* ------------------------------------------------------------------------
\* SynonymMatchStrategy. Its scores are products of a confidence and of
\* factors with up to four decimals: they are written in millionths, rounded
\* down (0.855 is 855000).
\* ------------------------------------------------------------------------

\* s.startsWith(prefix)
StartsWith(s, prefix) ==
  Len(prefix) <= Len(s) /\ SubSeq(s, 1, Len(prefix)) = prefix

\* s.indexOf(sub), where s.includes(sub): positions count from 0
IndexOf(s, sub) ==
  LET At(i) == SubSeq(s, i, i + Len(sub) - 1) = sub
      first == CHOOSE i \in 1..(Len(s) - Len(sub) + 1) :
                 At(i) /\ \A j \in 1..(i - 1) : ~At(j)
  IN  first - 1

\* `${synonymMatch.originalTerm} → ${synonymMatch.canonicalTerm}`
ArrowTerm(originalTerm, canonicalTerm) == originalTerm \o <<" ", "→", " ">> \o canonicalTerm

\* The scoring with the position penalty itself as the last factor of a
\* substring match: confidence * (0.7 + lengthRatio * 0.15) * positionPenalty.
SynonymItemMatchPenaltyFactor(item, canonicalNormalized, confidence) ==
  LET normalizedName == normalize(item.name, NoOptions)
      normalizedCategory == normalize(CategoryOf(item), NoOptions)
      c == Len(canonicalNormalized)
      n == Len(normalizedName)
  IN  IF normalizedName = canonicalNormalized
      THEN [matchScore |-> confidence * 9500, matchedTerms |-> <<item.name>>]
      ELSE IF StartsWith(normalizedName, canonicalNormalized)
      THEN [matchScore |-> confidence * (8500 + (c * 1000) \div n),
            matchedTerms |-> <<item.name>>]
      ELSE IF c >= 4 /\ Includes(normalizedName, canonicalNormalized)
      THEN [matchScore |->
              (confidence * (7000 + (c * 1500) \div n)
                 * ((IndexOf(normalizedName, canonicalNormalized) * 1000) \div n))
                \div 1000,
            matchedTerms |-> <<item.name>>]
      ELSE IF normalizedCategory = canonicalNormalized
      THEN [matchScore |-> confidence * 8000, matchedTerms |-> <<CategoryOf(item)>>]
      ELSE [matchScore |-> 0, matchedTerms |-> <<>>]

\* matchScore and matchedTerms of one item against the normalized canonical
\* term, for a match of the given confidence (hundredths): the first
\* condition that applies decides.
SynonymItemMatch(item, canonicalNormalized, confidence) ==
  LET normalizedName == normalize(item.name, NoOptions)
      normalizedCategory == normalize(CategoryOf(item), NoOptions)
      c == Len(canonicalNormalized)
      n == Len(normalizedName)
  IN  IF normalizedName = canonicalNormalized
      THEN [matchScore |-> confidence * 9500, matchedTerms |-> <<item.name>>]
      ELSE IF StartsWith(normalizedName, canonicalNormalized)
      THEN [matchScore |-> confidence * (8500 + (c * 1000) \div n),
            matchedTerms |-> <<item.name>>]
      ELSE IF c >= 4 /\ Includes(normalizedName, canonicalNormalized)
      THEN [matchScore |->
              (confidence * (7000 + (c * 1500) \div n)
                 * (1000 - (IndexOf(normalizedName, canonicalNormalized) * 300) \div n))
                \div 1000,
            matchedTerms |-> <<item.name>>]
      ELSE IF normalizedCategory = canonicalNormalized
      THEN [matchScore |-> confidence * 8000, matchedTerms |-> <<CategoryOf(item)>>]
      ELSE [matchScore |-> 0, matchedTerms |-> <<>>]

\* The body of the loop over items: adds the item's result, or raises the
\* score of the result the item already has.
SynonymAddItem(results, item, synonymMatch, query) ==
  LET canonicalTerm == IF "canonicalTerm" \in DOMAIN synonymMatch
                       THEN synonymMatch["canonicalTerm"] ELSE Undefined
      \* normalize(undefined) is ''
      canonicalNormalized == IF canonicalTerm = Undefined THEN <<>>
                             ELSE normalize(canonicalTerm, NoOptions)
      \* undefined * x is NaN, and NaN > 0 is false
      confidence == IF "confidence" \in DOMAIN synonymMatch
                    THEN synonymMatch["confidence"] ELSE 0
      m == SynonymItemMatch(item, canonicalNormalized, confidence)
      arrow == ArrowTerm(synonymMatch["originalTerm"], canonicalTerm)
      existing == {i \in 1..Len(results) : results[i].item.id = item.id}
      first == CHOOSE i \in existing : \A j \in existing : i <= j
  IN  IF ~(m.matchScore > 0) THEN results
      ELSE IF existing = {}
      THEN Append(results,
                  SearchResult(item, m.matchScore, "partial",
                               m.matchedTerms \o <<arrow>>, query))
      ELSE IF results[first].score < m.matchScore
      THEN [results EXCEPT ![first].score = m.matchScore,
                           ![first].matchedTerms = Append(@, arrow)]
      ELSE results

\* findMatches(items, query, normalizedQuery) over the service's index
findMatches(index, items, query, normalizedQuery) ==
  LET synonymMatches == findSynonyms(index, query)
      \* position p of the two nested loops: match by match, item by item
      Steps == Len(synonymMatches) * Len(items)
      F[p \in 0..Steps] ==
        IF p = 0 THEN <<>>
        ELSE SynonymAddItem(F[p - 1],
                            items[((p - 1) % Len(items)) + 1],
                            synonymMatches[((p - 1) \div Len(items)) + 1],
                            query)
  IN  SortByScoreDesc(F[Steps])

\* ------------------------------------------------------------------------
\* QueryEngine
\* ------------------------------------------------------------------------

\* What the text-search step of executeQuery keeps: items whose lowercased
\* name or category contains the lowercased, trimmed search term.
QueryTextFilter(items, searchTerm) ==
  LET term == Trim(ToLowerCase(searchTerm))
      Keep(item) ==
        \/ Includes(ToLowerCase(item.name), term)
        \/ /\ "category" \in DOMAIN item
           /\ Includes(ToLowerCase(item.category), term)
  IN  SelectSeq(items, Keep)

\* A registered filter definition { type, applyFilter }: applyFilter is the
\* caller's code; the definitions of the model keep the items whose
\* attribute has the filter's value.
applyFilter(filterDef, items, filter) ==
  LET Keep(item) ==
        /\ filterDef.attribute \in DOMAIN item
        /\ item[filterDef.attribute] = filter.value
  IN  SelectSeq(items, Keep)

\* A loop over options.filters that records every supplied filter, applied
\* or not.
ApplyFiltersRecordAll(registry, items, filters) ==
  LET F[i \in 0..Len(filters)] ==
        IF i = 0 THEN [items |-> items, appliedFilters |-> <<>>]
        ELSE IF ObjectHas(registry, filters[i].type)
        THEN [items |-> applyFilter(ObjectGet(registry, filters[i].type),
                                    F[i - 1].items, filters[i]),
              appliedFilters |-> Append(F[i - 1].appliedFilters, filters[i])]
        ELSE [items |-> F[i - 1].items,
              appliedFilters |-> Append(F[i - 1].appliedFilters, filters[i])]
  IN  F[Len(filters)]

\* The loop over options.filters: a filter whose type is registered is
\* applied and recorded, any other is skipped.
ApplyFilters(registry, items, filters) ==
  LET F[i \in 0..Len(filters)] ==
        IF i = 0 THEN [items |-> items, appliedFilters |-> <<>>]
        ELSE IF ObjectHas(registry, filters[i].type)
        THEN [items |-> applyFilter(ObjectGet(registry, filters[i].type),
                                    F[i - 1].items, filters[i]),
              appliedFilters |-> Append(F[i - 1].appliedFilters, filters[i])]
        ELSE F[i - 1]
  IN  F[Len(filters)]

\* The characters of the model in the order of their UTF-16 code units
CodeUnitOrder ==
  <<"\t", "\n", " ", "-",
    "0","1","2","3","4","5","6","7","8","9",
    "A","B","C","D","E","F","G","H","I","J","K","L","M",
    "N","O","P","Q","R","S","T","U","V","W","X","Y","Z",
    "_",
    "a","b","c","d","e","f","g","h","i","j","k","l","m",
    "n","o","p","q","r","s","t","u","v","w","x","y","z",
    "Á", "É", "Í", "Ñ", "Ó", "Ú", "á", "ã", "é", "ê", "í", "ñ", "ó", "ú",
    "U+0301", "U+0302", "U+0303", "→">>

CodeUnitRank(c) == CHOOSE i \in 1..Len(CodeUnitOrder) : CodeUnitOrder[i] = c

\* (item as any)[sortBy]: a string, or undefined
SortValue(item, sortBy) ==
  IF sortBy \notin DOMAIN item THEN Undefined
  ELSE IF sortBy = "id" THEN <<item.id>>
  ELSE item[sortBy]

\* a > b on two sort values: strings compare by code units, and no
\* comparison with undefined is true.
Greater(a, b) ==
  /\ a # Undefined
  /\ b # Undefined
  /\ \E k \in 1..Len(a) :
       /\ \A i \in 1..(k - 1) : i <= Len(b) /\ a[i] = b[i]
       /\ k > Len(b) \/ CodeUnitRank(a[k]) > CodeUnitRank(b[k])

\* Array.prototype.sort with a comparator that never answers 0. Over values
\* that are all defined and distinct the comparator is consistent and the
\* outcome is the sorted order; otherwise (equal or undefined values) the
\* comparator is not consistent and the order is the sort implementation's.
SortOutcomes(list, sortBy, descending) ==
  LET n == Len(list)
      Perms == {p \in [1..n -> 1..n] : \A i, j \in 1..n : i # j => p[i] # p[j]}
      Value(p, i) == SortValue(list[p[i]], sortBy)
      Consistent ==
        \A i, j \in 1..n :
          /\ SortValue(list[i], sortBy) # Undefined
          /\ i # j => SortValue(list[i], sortBy) # SortValue(list[j], sortBy)
      Ordered(p) ==
        \A i, j \in 1..n :
          i < j => IF descending THEN Greater(Value(p, i), Value(p, j))
                   ELSE Greater(Value(p, j), Value(p, i))
  IN  {[i \in 1..n |-> list[p[i]]] : p \in {q \in Perms : Consistent => Ordered(q)}}

\* executeQuery(items, options): the results it may return (one, unless the
\* sort leaves an order open)
executeQuery(registry, items, options) ==
  LET searched ==
        IF "searchTerm" \in DOMAIN options /\ options["searchTerm"] # <<>>
             /\ Len(Trim(options["searchTerm"])) > 0
        THEN QueryTextFilter(items, options["searchTerm"])
        ELSE items
      filtered ==
        IF "filters" \in DOMAIN options
        THEN ApplyFilters(registry, searched, options["filters"])
        ELSE [items |-> searched, appliedFilters |-> <<>>]
      sortings ==
        IF "sortBy" \in DOMAIN options
        THEN SortOutcomes(filtered.items, options["sortBy"],
                          "sortOrder" \in DOMAIN options /\ options["sortOrder"] = "desc")
        ELSE {filtered.items}
  IN  {[items |-> s, totalCount |-> Len(s), appliedFilters |-> filtered.appliedFilters] :
         s \in sortings}

\* ------------------------------------------------------------------------
\* State
\* ------------------------------------------------------------------------

VARIABLES
  nText,      \* the string handed to normalize
  nOptions,   \* the options handed to normalize
  nOnce,      \* normalize(nText, nOptions)
  nTwice,     \* normalize(nOnce, nOptions)
  nPc,        \* "start", "once", "twice"
  nVaried,    \* whether createSearchVariations(nText) has been called
  nVariations,  \* what createSearchVariations(nText) returned
  SYNONYM_DATABASE,  \* the database exported by data/synonyms
  sTerm,      \* the term the caller asks the SynonymService about
  sMatches,   \* what findSynonyms(sTerm) returned
  sOp,        \* the last SynonymService operation
  sHas,       \* what hasSynonyms(sTerm) returned
  sCanonical, \* what getCanonicalTerm(sTerm) returned
  sVariations,  \* what findAllVariations(sTerm) returned
  sCalled,    \* the SynonymService operations called with sTerm so far
  version,    \* which HybridSearchEngine this is: "hierarchical" or "cumulative"
  items,      \* this.items
  fuse,       \* this.fuse
  op,         \* the last engine operation: "constructor", "updateItems", "search"
  query,      \* the query of the last search
  options,    \* the options of the last search
  fuseResults,  \* what this.fuse.search returned in the last search
  tiersRun,   \* the matching steps the last search ran, in order
  result,     \* what the last search returned
  updated,    \* whether updateItems has been called
  mCalled,    \* whether SynonymMatchStrategy.findMatches ran on the query
  mResults,   \* what findMatches returned
  filterRegistry,  \* the QueryEngine's filterRegistry
  qOptions,   \* the options of the last executeQuery
  qResult,    \* what the last executeQuery returned
  instance,   \* SynonymService.instance: 0 while unset, else the number of the object
  constructed,  \* how many SynonymService objects have been constructed
  sInstance,  \* what the last getInstance returned (0: none yet)
  sRegion,    \* what getRegionInfo(sTerm) returned
  sStats,     \* what getStats() returned
  repeated,   \* whether the search has been made a second time
  result2,    \* what the second search returned
  passed      \* the contents of the caller's array when it was passed to the engine

normVars == <<nText, nOptions, nOnce, nTwice, nPc, nVaried, nVariations>>

synVars == <<SYNONYM_DATABASE, sTerm, sMatches, sOp, sHas, sCanonical, sVariations, sCalled>>

engineVars == <<version, items, fuse, op, query, options, fuseResults, tiersRun, result, updated>>

strategyVars == <<mCalled, mResults>>

queryVars == <<filterRegistry, qOptions, qResult>>

serviceVars == <<instance, constructed, sInstance, sRegion, sStats>>

repeatVars == <<repeated, result2>>

callerVars == <<passed>>

vars == <<normVars, synVars, engineVars, strategyVars, queryVars, serviceVars, repeatVars,
          callerVars>>

\* ------------------------------------------------------------------------
\* The normalizer applied to bounded inputs
\* ------------------------------------------------------------------------

MaxLen == 3

NormAlphabet == {"a", "A", "á", " ", "-", "_"}

RECURSIVE StringsUpTo(_, _)
StringsUpTo(alphabet, n) ==
  IF n = 0 THEN {<<>>}
  ELSE LET shorter == StringsUpTo(alphabet, n - 1)
       IN  shorter \cup {Append(s, c) : s \in {t \in shorter : Len(t) = n - 1}, c \in alphabet}

NormInputs == StringsUpTo(NormAlphabet, MaxLen)

NormOptionSets == {NoOptions} \cup [OptionNames -> BOOLEAN]

NormIdle ==
  /\ nText = <<>>
  /\ nOptions = NoOptions
  /\ nOnce = <<>>
  /\ nTwice = <<>>
  /\ nPc = "start"
  /\ nVaried = FALSE
  /\ nVariations = <<>>

\* data/synonyms not imported yet
SynIdle ==
  /\ SYNONYM_DATABASE = EmptyDatabase
  /\ sTerm = <<>>
  /\ sMatches = <<>>
  /\ sOp = "idle"
  /\ sHas = FALSE
  /\ sCanonical = Null
  /\ sVariations = <<>>
  /\ sCalled = {}

\* No engine constructed
EngineIdle ==
  /\ version = "none"
  /\ items = <<>>
  /\ fuse = NewFuse(<<>>)
  /\ op = "idle"
  /\ query = <<>>
  /\ options = <<>>
  /\ fuseResults = <<>>
  /\ tiersRun = <<>>
  /\ result = <<>>
  /\ updated = FALSE

\* The synonym strategy has not run
StrategyIdle ==
  /\ mCalled = FALSE
  /\ mResults = <<>>

\* SynonymService.getInstance not called yet
ServiceIdle ==
  /\ instance = 0
  /\ constructed = 0
  /\ sInstance = 0
  /\ sRegion = Null
  /\ sStats = <<>>

\* The one SynonymService is constructed and in the caller's hands
ServiceReady ==
  /\ instance = 1
  /\ constructed = 1
  /\ sInstance = 1
  /\ sRegion = Null
  /\ sStats = <<>>

\* No search repeated
RepeatIdle ==
  /\ repeated = FALSE
  /\ result2 = <<>>

\* No QueryEngine call made, no filter registered
QueryIdle ==
  /\ filterRegistry = <<>>
  /\ qOptions = <<>>
  /\ qResult = <<>>

InitNormalize ==
  /\ nText \in NormInputs
  /\ nOptions \in NormOptionSets
  /\ nOnce = <<>>
  /\ nTwice = <<>>
  /\ nPc = "start"
  /\ nVaried = FALSE
  /\ nVariations = <<>>
  /\ SynIdle
  /\ EngineIdle
  /\ StrategyIdle
  /\ QueryIdle
  /\ ServiceIdle
  /\ RepeatIdle
  /\ passed = <<>>

Normalize ==
  /\ nPc = "start"
  /\ nOnce' = normalize(nText, nOptions)
  /\ nPc' = "once"
  /\ UNCHANGED <<nText, nOptions, nTwice, nVaried, nVariations, synVars, engineVars, strategyVars, queryVars, serviceVars, repeatVars, callerVars>>

NormalizeAgain ==
  /\ nPc = "once"
  /\ nTwice' = normalize(nOnce, nOptions)
  /\ nPc' = "twice"
  /\ UNCHANGED <<nText, nOptions, nOnce, nVaried, nVariations, synVars, engineVars, strategyVars, queryVars, serviceVars, repeatVars, callerVars>>

CreateSearchVariations ==
  /\ ~nVaried
  /\ nVaried' = TRUE
  /\ nVariations' = createSearchVariations(nText)
  /\ UNCHANGED <<nText, nOptions, nOnce, nTwice, nPc, synVars, engineVars, strategyVars,
                 queryVars, serviceVars, repeatVars, callerVars>>

NextNormalize == Normalize \/ NormalizeAgain \/ CreateSearchVariations

SpecNormalize == InitNormalize /\ [][NextNormalize]_vars

\* C4: normalize is idempotent: normalizing a normalized string again, under
\* the same options, changes nothing.
NormalizeIdempotent == nPc = "twice" => nTwice = nOnce

\* ------------------------------------------------------------------------
\* The synonym service over the index built when data/synonyms is loaded
\* ------------------------------------------------------------------------

\* Every term written in a vocabulary: canonical terms and synonyms.
TermsOf(data) ==
  {data[i].canonical : i \in 1..Len(data)}
    \cup UNION {{data[i].synonyms[j].term : j \in 1..Len(data[i].synonyms)} :
                  i \in 1..Len(data)}

WrittenTerms == TermsOf(synonymsData) \cup TermsOf(synonymsData2)

\* Terms asked of the service: the written terms, their normalized forms,
\* and terms the vocabulary does not have.
LookupTerms ==
  WrittenTerms
    \cup {normalize(w, NoOptions) : w \in WrittenTerms}
    \cup {<<>>, <<" ">>, <<"P","A","L","T","A">>, <<" ","p","a","l","t","a"," ">>,
          <<"t","o","m","a","t","e">>, <<"-">>}
    \cup ObjectPrototypeKeys

\* The module is loaded (the index is built) and a caller holds a term; each
\* action below is one call of the service with that term.
InitSynonym ==
  /\ SYNONYM_DATABASE \in {buildSearchIndex, buildSearchIndex2}
  /\ sTerm \in LookupTerms
  /\ sMatches = <<>>
  /\ sOp = "load"
  /\ sHas = FALSE
  /\ sCanonical = Null
  /\ sVariations = <<>>
  /\ sCalled = {}
  /\ NormIdle
  /\ EngineIdle
  /\ StrategyIdle
  /\ QueryIdle
  /\ ServiceReady
  /\ RepeatIdle
  /\ passed = <<>>

FindSynonyms ==
  /\ sInstance # 0
  /\ "findSynonyms" \notin sCalled
  /\ sMatches' = findSynonyms(SYNONYM_DATABASE.searchIndex, sTerm)
  /\ sOp' = "findSynonyms"
  /\ sCalled' = sCalled \cup {"findSynonyms"}
  /\ UNCHANGED <<SYNONYM_DATABASE, sTerm, sHas, sCanonical, sVariations, normVars, engineVars, strategyVars, queryVars, serviceVars, repeatVars, callerVars>>

HasSynonyms ==
  /\ sInstance # 0
  /\ "hasSynonyms" \notin sCalled
  /\ sHas' = hasSynonyms(SYNONYM_DATABASE.searchIndex, sTerm)
  /\ sOp' = "hasSynonyms"
  /\ sCalled' = sCalled \cup {"hasSynonyms"}
  /\ UNCHANGED <<SYNONYM_DATABASE, sTerm, sMatches, sCanonical, sVariations, normVars, engineVars, strategyVars, queryVars, serviceVars, repeatVars, callerVars>>

GetCanonicalTerm ==
  /\ sInstance # 0
  /\ "getCanonicalTerm" \notin sCalled
  /\ sCanonical' = getCanonicalTerm(SYNONYM_DATABASE.searchIndex, sTerm)
  /\ sOp' = "getCanonicalTerm"
  /\ sCalled' = sCalled \cup {"getCanonicalTerm"}
  /\ UNCHANGED <<SYNONYM_DATABASE, sTerm, sMatches, sHas, sVariations, normVars, engineVars, strategyVars, queryVars, serviceVars, repeatVars, callerVars>>

FindAllVariations ==
  /\ sInstance # 0
  /\ "findAllVariations" \notin sCalled
  /\ sVariations' = findAllVariations(SYNONYM_DATABASE.searchIndex, sTerm)
  /\ sOp' = "findAllVariations"
  /\ sCalled' = sCalled \cup {"findAllVariations"}
  /\ UNCHANGED <<SYNONYM_DATABASE, sTerm, sMatches, sHas, sCanonical, normVars, engineVars, strategyVars, queryVars, serviceVars, repeatVars, callerVars>>

NextSynonym == FindSynonyms \/ HasSynonyms \/ GetCanonicalTerm \/ FindAllVariations

SpecSynonym == InitSynonym /\ [][NextSynonym]_vars

\* C10: every key of the synonym search index is a normalized string:
\* normalize(k) = k under the default options.
IndexKeysNormalized ==
  \A k \in ObjectKeys(SYNONYM_DATABASE.searchIndex) : normalize(k, NoOptions) = k

searchIndex == SYNONYM_DATABASE.searchIndex

\* The vocabulary groups the loaded database was built from: the first key
\* written tells which synonymsData it was.
Groups ==
  IF Len(searchIndex) = 0 THEN <<>>
  ELSE IF searchIndex[1].key = IndexKey(synonymsData[1].canonical) THEN synonymsData
  ELSE synonymsData2

\* C11: for every vocabulary group the normalized canonical term is a key of
\* the index, and its entry has confidence 1.0 and no regionInfo: no synonym
\* inserted later has replaced it.
CanonicalEntriesKept ==
  \A g \in 1..Len(Groups) :
    LET k == normalize(Groups[g].canonical, NoOptions)
    IN  /\ ObjectHas(searchIndex, k)
        /\ ObjectGet(searchIndex, k).confidence = 100
        /\ "regionInfo" \notin DOMAIN ObjectGet(searchIndex, k)

\* C12: findSynonyms(term) returns at most one match; it returns one exactly
\* when the normalized term is a key that index construction inserted, and
\* the match then carries that entry's canonical term, confidence and
\* regionInfo, with originalTerm the term as passed; otherwise it returns
\* nothing.
FindSynonymsLooksUp ==
  "findSynonyms" \in sCalled =>
    LET k == normalize(sTerm, NoOptions)
    IN  /\ Len(sMatches) <= 1
        /\ (sMatches # <<>>) <=> ObjectHas(searchIndex, k)
        /\ sMatches # <<>> =>
             /\ sMatches[1]["originalTerm"] = sTerm
             /\ "canonicalTerm" \in DOMAIN sMatches[1]
             /\ "confidence" \in DOMAIN sMatches[1]
             /\ ObjectHas(searchIndex, k) =>
                  /\ sMatches[1]["canonicalTerm"] = ObjectGet(searchIndex, k).canonical
                  /\ sMatches[1]["confidence"] = ObjectGet(searchIndex, k).confidence
                  /\ ("regionInfo" \in DOMAIN sMatches[1])
                       <=> ("regionInfo" \in DOMAIN ObjectGet(searchIndex, k))
                  /\ "regionInfo" \in DOMAIN sMatches[1] =>
                       sMatches[1]["regionInfo"] = ObjectGet(searchIndex, k).regionInfo

\* C13: the three lookups agree on every term: hasSynonyms is true exactly
\* when findSynonyms returns a match and exactly when getCanonicalTerm
\* returns a canonical term, which is then the canonicalTerm of the match.
IsCanonicalTerm(value) == value # Null /\ value # Undefined

LookupsAgree ==
  {"findSynonyms", "hasSynonyms", "getCanonicalTerm"} \subseteq sCalled =>
    /\ sHas <=> (sMatches # <<>>)
    /\ sHas <=> IsCanonicalTerm(sCanonical)
    /\ IsCanonicalTerm(sCanonical) =>
         /\ sMatches # <<>>
         /\ "canonicalTerm" \in DOMAIN sMatches[1]
         /\ sMatches[1]["canonicalTerm"] = sCanonical

\* C14: for a canonical term c of the dataset, findAllVariations(c) returns
\* exactly the index entries whose canonical term normalizes to normalize(c)
\* except the canonical term's own entry (the one without regionInfo), and so
\* every synonym entry of c's group.
IsCanonicalOfDataset(term) == \E g \in 1..Len(Groups) : Groups[g].canonical = term

VariationKeys == {sVariations[i]["originalTerm"] : i \in 1..Len(sVariations)}

FindAllVariationsOfGroup ==
  ("findAllVariations" \in sCalled /\ IsCanonicalOfDataset(sTerm)) =>
    LET c == normalize(sTerm, NoOptions)
        expected ==
          {searchIndex[i].key :
             i \in {j \in 1..Len(searchIndex) :
                      /\ normalize(searchIndex[j].value.canonical, NoOptions) = c
                      /\ "regionInfo" \in DOMAIN searchIndex[j].value}}
    IN  /\ VariationKeys = expected
        /\ Len(sVariations) = Cardinality(expected)
        /\ \A g \in 1..Len(Groups) :
             Groups[g].canonical = sTerm =>
               \A s \in 1..Len(Groups[g].synonyms) :
                 IndexKey(Groups[g].synonyms[s].term) \in VariationKeys

\* C15: every index entry inserted for a synonym has confidence 0.9 and a
\* regionInfo made from the first region code the synonym lists: that code,
\* the country name configured for it (the code itself where none is), and
\* language "es" for a two-letter code, "en" otherwise. In particular
\* findSynonyms("palta") returns the canonical term of the group that lists
\* "palta", with the country of palta's first region.
\* The synonyms (term and regions) of the entry's group written under key.
ListedAs(key, entry) ==
  UNION {{Groups[g].synonyms[s] :
            s \in {t \in 1..Len(Groups[g].synonyms) :
                     IndexKey(Groups[g].synonyms[t].term) = key}} :
           g \in {h \in 1..Len(Groups) : Groups[h].canonical = entry.canonical}}

RegionInfoOf(code) ==
  [region |-> code,
   country |-> IF code \in DOMAIN countries THEN countries[code] ELSE code,
   language |-> IF Len(code) = 2 THEN "es" ELSE "en"]

Palta == <<"p","a","l","t","a">>

MaxItems == 2

\* The products a catalog is drawn from; ids are unique.
Products ==
  {[id |-> "1", name |-> <<"P","i","ñ","a">>, category |-> <<"F","r","u","t","a">>],
   [id |-> "2", name |-> <<"F","r","u","t","a">>],
   [id |-> "3", name |-> <<"P","e","r","a">>, category |-> <<"F","r","u","t","a">>]}

\* Item arrays of at most MaxItems products, no product twice.
Catalogs ==
  {c \in UNION {[1..n -> Products] : n \in 0..MaxItems} :
     \A i, j \in 1..Len(c) : i # j => c[i] # c[j]}

Queries ==
  {<<>>, <<" ">>, <<" "," "," ">>, <<"\t">>,
   <<"P","I","Ñ","A">>, <<"f","r","u","t","a">>, <<"f","r","u">>,
   <<"-">>, <<"k","i","w","i">>, <<"F","R","U">>, <<"p","a","l","t","a">>}

\* search(query) is search(query, { threshold: 0.4 }); a caller may pass
\* minScore and maxResults.
DefaultSearchOptions == [threshold |-> 40]

MinScores == {0, 60, 96}

MaxResultsValues == {0, 1, 2}

SearchOptionSets ==
  {DefaultSearchOptions}
    \cup {[minScore |-> m] : m \in MinScores}
    \cup {[maxResults |-> n] : n \in MaxResultsValues}
    \cup {[minScore |-> m, maxResults |-> n] : m \in MinScores, n \in MaxResultsValues}

InitEngine ==
  /\ version \in {"hierarchical", "cumulative"}
  /\ items \in Catalogs
  /\ fuse = NewFuse(items)
  /\ op = "constructor"
  /\ query = <<>>
  /\ options = <<>>
  /\ fuseResults = <<>>
  /\ tiersRun = <<>>
  /\ result = <<>>
  /\ updated = FALSE
  /\ NormIdle
  /\ SynIdle
  /\ StrategyIdle
  /\ QueryIdle
  /\ ServiceIdle
  /\ RepeatIdle
  /\ passed = items

\* updateItems that replaces the snapshot and keeps the old Fuse index.
updateItemsStaleIndex(newItems) ==
  /\ items' = newItems
  /\ fuse' = fuse

updateItems(newItems) ==
  /\ items' = newItems
  /\ fuse' = NewFuse(newItems)

UpdateItems ==
  \E newItems \in Catalogs :
    /\ version # "none"
    /\ op # "search"
    /\ updateItems(newItems)
    /\ op' = "updateItems"
    /\ updated' = TRUE
    /\ passed' = newItems
    /\ UNCHANGED <<version, query, options, fuseResults, tiersRun, result, normVars, synVars,
                   strategyVars, queryVars, serviceVars, repeatVars>>

\* A search of the hierarchical version that reverses this.items in place
\* while it answers.
SearchHierarchicalReversing ==
  /\ version = "hierarchical"
  /\ op # "search"
  /\ \E q \in Queries :
       \E found \in (IF CallsFuse(items, q) THEN FuseOutcomes(fuse) ELSE {<<>>}) :
         \E o \in SearchOptionSets :
           /\ op' = "search"
           /\ query' = q
           /\ options' = o
           /\ fuseResults' = found
           /\ tiersRun' = search(items, found, q, o).tiersRun
           /\ result' = search(items, found, q, o).result
  /\ items' = [i \in 1..Len(items) |-> items[Len(items) + 1 - i]]
  /\ mCalled' = FALSE
  /\ mResults' = <<>>
  /\ UNCHANGED <<version, fuse, updated, normVars, synVars, queryVars, serviceVars,
                 repeatVars, callerVars>>

\* search of the hierarchical version: the first step that finds anything
\* answers.
SearchHierarchical ==
  /\ version = "hierarchical"
  /\ op # "search"
  /\ \E q \in Queries :
       \E found \in (IF CallsFuse(items, q) THEN FuseOutcomes(fuse) ELSE {<<>>}) :
         \E o \in SearchOptionSets :
           /\ op' = "search"
           /\ query' = q
           /\ options' = o
           /\ fuseResults' = found
           /\ tiersRun' = search(items, found, q, o).tiersRun
           /\ result' = search(items, found, q, o).result
  /\ mCalled' = FALSE
  /\ mResults' = <<>>
  /\ UNCHANGED <<version, items, fuse, updated, normVars, synVars, queryVars, serviceVars, repeatVars, callerVars>>

\* search of the cumulative version: every step runs, one result per item id.
SearchCumulative ==
  /\ version = "cumulative"
  /\ op # "search"
  /\ \E q \in Queries :
       \E found \in (IF IsBlank(q) THEN {<<>>} ELSE FuseOutcomes(fuse)) :
         \E o \in SearchOptionSets :
           /\ op' = "search"
           /\ query' = q
           /\ options' = o
           /\ fuseResults' = found
           /\ tiersRun' = searchCumulative(items, found, q, o).tiersRun
           /\ result' = searchCumulative(items, found, q, o).result
  /\ mCalled' = FALSE
  /\ mResults' = <<>>
  /\ UNCHANGED <<version, items, fuse, updated, normVars, synVars, queryVars, serviceVars, repeatVars, callerVars>>

\* The caller takes what search returned; the engine is ready for its next
\* call (calls are synchronous, one at a time).
Return ==
  /\ op = "search"
  /\ op' = "returned"
  /\ query' = <<>>
  /\ options' = <<>>
  /\ fuseResults' = <<>>
  /\ tiersRun' = <<>>
  /\ result' = <<>>
  /\ mCalled' = FALSE
  /\ mResults' = <<>>
  /\ repeated' = FALSE
  /\ result2' = <<>>
  /\ UNCHANGED <<version, items, fuse, updated, normVars, synVars, queryVars, serviceVars,
                 callerVars>>

Next == UpdateItems \/ SearchHierarchical \/ SearchCumulative \/ Return

Init == InitEngine

Spec == Init /\ [][Next]_vars

\* ------------------------------------------------------------------------
\* The engine and the synonym strategy over catalogs of avocado products,
\* with the synonym database loaded
\* ------------------------------------------------------------------------

Zanahoria == [id |-> "1", name |-> <<"Z","a","n","a","h","o","r","i","a">>,
              category |-> <<"V","e","r","d","u","r","a","s">>]

Aguacate == [id |-> "2", name |-> <<"A","g","u","a","c","a","t","e">>,
             category |-> <<"F","r","u","t","a","s">>]

AguacateHass == [id |-> "3", name |-> <<"A","g","u","a","c","a","t","e"," ","H","a","s","s">>,
                 category |-> <<"A","g","u","a","c","a","t","e">>]

PanDeAguacate == [id |-> "4",
                  name |-> <<"P","a","n"," ","d","e"," ","a","g","u","a","c","a","t","e">>,
                  category |-> <<"P","a","n","e","s">>]

Salsa == [id |-> "5", name |-> <<"S","a","l","s","a">>,
          category |-> <<"A","g","u","a","c","a","t","e">>]

Avocado == [id |-> "6", name |-> <<"A","v","o","c","a","d","o">>]

PaltaCatalog == <<Zanahoria, Aguacate>>

AvocadoCatalogs ==
  {PaltaCatalog, <<AguacateHass, PanDeAguacate>>, <<Salsa, Avocado>>}

InitSynonymSearch ==
  /\ SYNONYM_DATABASE \in {buildSearchIndex, buildSearchIndex2}
  /\ sTerm = <<>>
  /\ sMatches = <<>>
  /\ sOp = "load"
  /\ sHas = FALSE
  /\ sCanonical = Null
  /\ sVariations = <<>>
  /\ sCalled = {}
  /\ version \in {"hierarchical", "cumulative"}
  /\ items \in AvocadoCatalogs
  /\ fuse = NewFuse(items)
  /\ op = "constructor"
  /\ query = <<>>
  /\ options = <<>>
  /\ fuseResults = <<>>
  /\ tiersRun = <<>>
  /\ result = <<>>
  /\ updated = FALSE
  /\ NormIdle
  /\ StrategyIdle
  /\ QueryIdle
  /\ ServiceReady
  /\ RepeatIdle
  /\ passed = items

\* SynonymMatchStrategy.findMatches on the items and the query of the search
\* that has just answered.
FindMatches ==
  /\ op = "search"
  /\ ~mCalled
  /\ mCalled' = TRUE
  /\ mResults' = findMatches(SYNONYM_DATABASE.searchIndex, items, query,
                             normalize(query, NoOptions))
  /\ UNCHANGED <<normVars, synVars, engineVars, queryVars, serviceVars, repeatVars, callerVars>>

NextSynonymSearch == SearchHierarchical \/ SearchCumulative \/ FindMatches \/ Return

SpecSynonymSearch == InitSynonymSearch /\ [][NextSynonymSearch]_vars

\* ------------------------------------------------------------------------
\* The QueryEngine over the catalogs of the engine
\* ------------------------------------------------------------------------

\* The filter definitions a caller registers
FilterDefinitions ==
  {[type |-> "category", attribute |-> "category"],
   [type |-> "name", attribute |-> "name"]}

\* The filters a caller supplies; no definition of type "price" exists.
FilterCriteria ==
  {[type |-> "category", value |-> <<"F","r","u","t","a">>],
   [type |-> "name", value |-> <<"P","e","r","a">>],
   [type |-> "price", value |-> <<"1">>]}

FilterLists ==
  {<<>>} \cup {<<f>> : f \in FilterCriteria}
    \cup {<<f, g>> : f \in FilterCriteria, g \in FilterCriteria}

SortOptionSets ==
  {[sortBy |-> "id"], [sortBy |-> "name", sortOrder |-> "desc"],
   [sortBy |-> "category", sortOrder |-> "asc"]}

\* A function extended by the fields of another
Merge(f, g) == [k \in DOMAIN f \cup DOMAIN g |-> IF k \in DOMAIN g THEN g[k] ELSE f[k]]

QueryOptionSets ==
  LET terms == {<<>>} \cup {[searchTerm |-> q] : q \in Queries}
      filters == {<<>>} \cup {[filters |-> l] : l \in FilterLists}
      sorts == {<<>>} \cup SortOptionSets
  IN  {Merge(Merge(t, f), o) : t \in terms, f \in filters, o \in sorts}

InitQuery ==
  /\ InitEngine

\* registerFilter(definition)
RegisterFilter ==
  \E definition \in FilterDefinitions :
    /\ op # "executeQuery"
    /\ filterRegistry' = ObjectSet(filterRegistry, definition.type, definition)
    /\ UNCHANGED <<qOptions, qResult, normVars, synVars, engineVars, strategyVars, serviceVars, repeatVars, callerVars>>

\* executeQuery(items, options) on the item set of the engine
ExecuteQuery ==
  /\ op # "executeQuery"
  /\ \E o \in QueryOptionSets :
       \E r \in executeQuery(filterRegistry, items, o) :
         /\ qOptions' = o
         /\ qResult' = r
  /\ op' = "executeQuery"
  /\ UNCHANGED <<version, items, fuse, query, options, fuseResults, tiersRun, result,
                 updated, filterRegistry, normVars, synVars, strategyVars, serviceVars, repeatVars, callerVars>>

\* The caller takes what executeQuery returned.
ReturnQuery ==
  /\ op = "executeQuery"
  /\ op' = "returned"
  /\ qOptions' = <<>>
  /\ qResult' = <<>>
  /\ UNCHANGED <<version, items, fuse, query, options, fuseResults, tiersRun, result,
                 updated, filterRegistry, normVars, synVars, strategyVars, serviceVars, repeatVars, callerVars>>

NextQuery == RegisterFilter \/ ExecuteQuery \/ ReturnQuery

SpecQuery == InitQuery /\ [][NextQuery]_vars

\* ------------------------------------------------------------------------
\* Properties of search
\* ------------------------------------------------------------------------

Searched == op = "search"

Range(seq) == {seq[i] : i \in 1..Len(seq)}

\* Every character of the query is white space (the empty query included).
QueryIsBlank == \A i \in 1..Len(query) : query[i] \in {" ", "\t", "\n"}

NormalizedQuery == normalize(query, NoOptions)

\* The item's normalized name or category equals the normalized query.
MatchesExactly(item) ==
  \/ normalize(item.name, NoOptions) = NormalizedQuery
  \/ normalize(CategoryOf(item), NoOptions) = NormalizedQuery

\* The item's normalized name or category contains the normalized query.
MatchesPartially(item) ==
  \/ Includes(normalize(item.name, NoOptions), NormalizedQuery)
  \/ Includes(normalize(CategoryOf(item), NoOptions), NormalizedQuery)

\* The results the answering step of the last search produced, before
\* minScore and maxResults were applied.
Candidates ==
  IF tiersRun = <<>> THEN <<>>
  ELSE IF version = "cumulative" THEN MapValues(MergedResults(items, fuseResults, query))
  ELSE IF tiersRun = <<"exact">> THEN getExactMatches(items, query, NormalizedQuery)
  ELSE IF tiersRun = <<"exact", "fuzzy">> THEN getFuzzyMatches(fuseResults, query)
  ELSE getPartialMatches(items, NormalizedQuery)

\* C1: a search never returns two results with the same item id.
NoDuplicateIds ==
  Searched =>
    \A i, j \in 1..Len(result) : i # j => result[i].item.id # result[j].item.id

\* An item matched exactly and also reported by Fuse is returned once, among
\* other results.
WitnessNoDuplicateIds ==
  /\ Searched
  /\ version = "cumulative"
  /\ Len(result) >= 2
  /\ \E r \in 1..Len(result), f \in 1..Len(fuseResults) :
       /\ result[r].item.id = fuseResults[f].item.id
       /\ result[r].matchType = "exact"

\* C2: the results of a search are non-increasing in score by position.
ScoreNonIncreasing ==
  Searched =>
    \A i, j \in 1..Len(result) : i < j => result[i].score >= result[j].score

\* The better result belongs to the later item: sorting moved it first.
WitnessScoreNonIncreasing ==
  /\ Searched
  /\ Len(result) >= 2
  /\ Len(items) >= 2
  /\ result[1].score > result[2].score
  /\ result[1].item = items[2]
  /\ result[2].item = items[1]

\* C3: the item snapshot and the Fuse index are always derived from the same
\* item array, and a search returns only items of that array, also after
\* updateItems.
SnapshotAndIndexAgree ==
  /\ fuse.docs = items
  /\ Searched =>
       /\ \A r \in 1..Len(result) : result[r].item \in Range(items)
       /\ \A f \in 1..Len(fuseResults) :
            /\ fuseResults[f].refIndex \in 1..Len(items)
            /\ fuseResults[f].item = items[fuseResults[f].refIndex]

\* A search after updateItems that Fuse answered.
WitnessSnapshotAndIndexAgree ==
  /\ Searched
  /\ updated
  /\ fuseResults # <<>>
  /\ result # <<>>
  /\ result[1].matchType = "fuzzy"

\* C5: a search for the empty string or for white space only returns the
\* empty sequence and runs no matching step.
BlankQueryReturnsNothing ==
  (Searched /\ QueryIsBlank) =>
    /\ result = <<>>
    /\ tiersRun = <<>>
    /\ fuseResults = <<>>

\* A white-space query against a catalog that has items.
WitnessBlankQueryReturnsNothing ==
  /\ Searched
  /\ Len(query) > 0
  /\ QueryIsBlank
  /\ items # <<>>
  /\ result = <<>>

\* C6: in the hierarchical version exact results answer alone if any item
\* matches exactly; else fuzzy results answer alone if Fuse returned any;
\* else partial results answer. So all results of a search have the same
\* matchType, and a step runs only when the steps before it found nothing.
AnyExactMatch == \E i \in 1..Len(items) : MatchesExactly(items[i])

MatchTypes == {result[i].matchType : i \in 1..Len(result)}

HierarchicalFallback ==
  (Searched /\ version = "hierarchical" /\ ~QueryIsBlank) =>
    /\ Cardinality(MatchTypes) <= 1
    /\ AnyExactMatch =>
         /\ MatchTypes \subseteq {"exact"}
         /\ tiersRun = <<"exact">>
         /\ \A r \in 1..Len(result) : MatchesExactly(result[r].item)
    /\ (~AnyExactMatch /\ fuseResults # <<>>) =>
         /\ MatchTypes \subseteq {"fuzzy"}
         /\ tiersRun = <<"exact", "fuzzy">>
         /\ \A r \in 1..Len(result) :
              \E f \in 1..Len(fuseResults) : fuseResults[f].item = result[r].item
    /\ (~AnyExactMatch /\ fuseResults = <<>>) =>
         /\ MatchTypes \subseteq {"partial"}
         /\ tiersRun = <<"exact", "fuzzy", "partial">>
         /\ \A r \in 1..Len(result) : MatchesPartially(result[r].item)

\* No exact match, Fuse found something, and an item Fuse did not report
\* contains the query: the fuzzy results answer alone.
WitnessHierarchicalFallback ==
  /\ Searched
  /\ version = "hierarchical"
  /\ ~AnyExactMatch
  /\ fuseResults # <<>>
  /\ result # <<>>
  /\ \E i \in 1..Len(items) :
       /\ MatchesPartially(items[i])
       /\ \A f \in 1..Len(fuseResults) : fuseResults[f].item # items[i]

\* C7: in the cumulative version the result kept for an item has the best
\* score among the results the exact, fuzzy and partial steps produce for it.
Max(S) == CHOOSE x \in S : \A y \in S : x >= y

StrategyScores(item) ==
  {r.score : r \in Range(ExactMatchesOfItem(item, query, NormalizedQuery))}
    \cup {FuzzyScore(fuseResults[f].score) :
            f \in {g \in 1..Len(fuseResults) : fuseResults[g].item.id = item.id}}
    \cup {r.score : r \in Range(PartialMatchesOfItem(item, NormalizedQuery))}

CumulativeKeepsBest ==
  (Searched /\ version = "cumulative") =>
    \A r \in 1..Len(result) :
      result[r].score = Max(StrategyScores(result[r].item))

\* C8: with minScore m every returned result has score >= m, and a candidate
\* with score >= m is missing from the results only when maxResults cut the
\* list.
MinScoreFilters ==
  (Searched /\ "minScore" \in DOMAIN options) =>
    LET m == options["minScore"]
    IN  /\ \A r \in 1..Len(result) : result[r].score >= m
        /\ \A c \in 1..Len(Candidates) :
             Candidates[c].score >= m =>
               \/ Candidates[c] \in Range(result)
               \/ /\ "maxResults" \in DOMAIN options
                  /\ Len(result) >= options["maxResults"]

\* A candidate scoring exactly m is returned and one scoring less is not.
WitnessMinScoreFilters ==
  /\ Searched
  /\ "minScore" \in DOMAIN options
  /\ "maxResults" \notin DOMAIN options
  /\ \E c \in 1..Len(Candidates) :
       Candidates[c].score = options["minScore"] /\ Candidates[c] \in Range(result)
  /\ \E c \in 1..Len(Candidates) :
       Candidates[c].score < options["minScore"] /\ Candidates[c] \notin Range(result)

\* C9: with maxResults n (n >= 0) a search returns at most n results: the
\* first n entries (all, if fewer) of the minScore-filtered candidates sorted
\* by descending score.
MaxResultsTruncates ==
  (Searched /\ "maxResults" \in DOMAIN options) =>
    LET n == options["maxResults"]
        ranked == SortByScoreDesc(FilterMinScore(Candidates, options))
    IN  /\ Len(result) <= n
        /\ result = SubSeq(ranked, 1, IF n < Len(ranked) THEN n ELSE Len(ranked))

\* C17: every result of search(q) carries the query exactly as the caller
\* passed it: its originalQuery is q, whichever step (exact, fuzzy, partial)
\* produced it.
ResultsCarryQuery ==
  Searched => \A i \in 1..Len(result) : result[i].originalQuery = query

\* The position of an item in the engine's snapshot
PositionOf(item) == CHOOSE k \in 1..Len(items) : items[k] = item

PaltaArrow == ArrowTerm(Palta, <<"a","g","u","a","c","a","t","e">>)

\* C16: on the catalog [Zanahoria/Verduras id 1, Aguacate/Frutas id 2],
\* search("palta") returns a non-empty sequence whose top result is item "2",
\* a result of the synonym strategy whose matchedTerms contains
\* "palta → aguacate".
PaltaFindsAguacate ==
  (Searched /\ items = PaltaCatalog /\ query = Palta) =>
    /\ result # <<>>
    /\ result[1].item.id = "2"
    /\ PaltaArrow \in Range(result[1].matchedTerms)

\* Confidences a synonym match may carry, in hundredths: within (0, 1]
Confidences == {1, 50, 90, 100}

\* Normalized canonical terms the items are scored against
CanonicalsTried == {<<"a","g","u","a","c","a","t","e">>, <<"a","v","o","c","a","d","o">>,
                    <<"a","g","u","a">>, <<"p","a","n">>}

\* C18: every result of search and of SynonymMatchStrategy.findMatches has a
\* score within [0, 1], for every synonym confidence in (0, 1] and every
\* fuzzy distance in [0, 1]. Engine scores are in hundredths, strategy scores
\* in millionths.
ScoresWithinUnit ==
  /\ \A i \in 1..Len(result) : result[i].score \in 0..100
  /\ \A i \in 1..Len(mResults) : mResults[i].score \in 0..1000000
  /\ \A distance \in 0..100 : FuzzyScore(distance) \in 0..100
  /\ mCalled =>
       \A i \in 1..Len(items) : \A c \in CanonicalsTried : \A confidence \in Confidences :
         SynonymItemMatch(items[i], c, confidence).matchScore \in 0..1000000

\* A search answered by the fuzzy step, on whose query the strategy found a
\* synonym match for two items.
WitnessScoresWithinUnit ==
  /\ Searched
  /\ mCalled
  /\ \E i \in 1..Len(result) : result[i].matchType = "fuzzy" /\ result[i].score > 0
  /\ Len(mResults) = 2
  /\ mResults[2].score > 0

\* ------------------------------------------------------------------------
\* Properties of the QueryEngine
\* ------------------------------------------------------------------------

Queried == op = "executeQuery"

\* The items of the results of search(searchTerm) over the engine's items,
\* in ranked order, when Fuse reports fuseFound
SearchedItems(searchTerm, fuseFound) ==
  LET ranked == IF version = "cumulative"
                THEN searchCumulative(items, fuseFound, searchTerm, DefaultSearchOptions).result
                ELSE search(items, fuseFound, searchTerm, DefaultSearchOptions).result
  IN  [i \in 1..Len(ranked) |-> ranked[i].item]

\* executeQuery was called with a non-blank search term, no filters, no sort
TermOnlyQuery ==
  /\ Queried
  /\ DOMAIN qOptions = {"searchTerm"}
  /\ ~IsBlank(qOptions["searchTerm"])

\* C20: called with a non-blank searchTerm and no filters or sort,
\* executeQuery returns exactly the items of HybridSearchEngine.search of
\* that term over the same items, in the engine's ranked order (for some
\* answer of Fuse).
QueryReturnsSearchRanking ==
  TermOnlyQuery =>
    \E fuseFound \in FuseOutcomes(fuse) :
      qResult.items = SearchedItems(qOptions["searchTerm"], fuseFound)

\* The filters supplied to the call
SuppliedFilters == IF "filters" \in DOMAIN qOptions THEN qOptions["filters"] ELSE <<>>

\* The type of the filter has a registered definition
IsRegistered(filter) == \E i \in 1..Len(filterRegistry) : filterRegistry[i].key = filter.type

\* The item has the value every registered supplied filter asks for
PassesFilters(item) ==
  \A i \in 1..Len(SuppliedFilters) :
    IsRegistered(SuppliedFilters[i]) =>
      LET attribute == SuppliedFilters[i].type
      IN  attribute \in DOMAIN item /\ item[attribute] = SuppliedFilters[i].value

\* The call had no search term, or a blank one
NoSearchTerm == "searchTerm" \notin DOMAIN qOptions \/ IsBlank(qOptions["searchTerm"])

\* The two sequences hold the same elements, each as often
SameElements(s, t) ==
  /\ Len(s) = Len(t)
  /\ \A x \in Range(s) \cup Range(t) :
       Cardinality({i \in 1..Len(s) : s[i] = x}) = Cardinality({i \in 1..Len(t) : t[i] = x})

\* C21: with no search term, or a blank one, executeQuery passes every item
\* to the filters; it applies the supplied filters whose type is registered,
\* in the order supplied, and skips the others; appliedFilters is the
\* subsequence of supplied filters whose type is registered, and totalCount
\* is the length of the returned items.
FiltersAppliedInOrder ==
  Queried =>
    /\ qResult.totalCount = Len(qResult.items)
    /\ qResult.appliedFilters = SelectSeq(SuppliedFilters, IsRegistered)
    /\ NoSearchTerm =>
         IF "sortBy" \in DOMAIN qOptions
         THEN SameElements(qResult.items, SelectSeq(items, PassesFilters))
         ELSE qResult.items = SelectSeq(items, PassesFilters)

\* A call with a blank search term and two filters, the first not registered,
\* the second registered and removing an item.
WitnessFiltersAppliedInOrder ==
  /\ Queried
  /\ "searchTerm" \in DOMAIN qOptions
  /\ NoSearchTerm
  /\ Len(SuppliedFilters) = 2
  /\ ~IsRegistered(SuppliedFilters[1])
  /\ IsRegistered(SuppliedFilters[2])
  /\ Len(qResult.items) > 0
  /\ Len(qResult.items) < Len(items)

\* ------------------------------------------------------------------------
\* The SynonymService from its first getInstance on
\* ------------------------------------------------------------------------

ServiceTerms ==
  {<<>>, Palta, <<"a","g","u","a","c","a","t","e">>, <<"m","a","í","z">>,
   <<"A","v","o","c","a","d","o">>, <<"_","_","p","r","o","t","o","_","_">>}

\* The module is loaded; nobody has asked for the service yet.
InitService ==
  /\ SYNONYM_DATABASE \in {buildSearchIndex, buildSearchIndex2}
  /\ sTerm \in ServiceTerms
  /\ sMatches = <<>>
  /\ sOp = "load"
  /\ sHas = FALSE
  /\ sCanonical = Null
  /\ sVariations = <<>>
  /\ sCalled = {}
  /\ NormIdle
  /\ EngineIdle
  /\ StrategyIdle
  /\ QueryIdle
  /\ ServiceIdle
  /\ RepeatIdle
  /\ passed = <<>>

\* SynonymService.getInstance(), called a first and a second time
GetInstance ==
  /\ "getInstance again" \notin sCalled
  /\ instance' = getInstance(instance, constructed).instance
  /\ constructed' = getInstance(instance, constructed).constructed
  /\ sInstance' = instance'
  /\ sOp' = "getInstance"
  /\ sCalled' = sCalled \cup {IF "getInstance" \in sCalled THEN "getInstance again"
                                ELSE "getInstance"}
  /\ UNCHANGED <<SYNONYM_DATABASE, sTerm, sMatches, sHas, sCanonical, sVariations, sRegion,
                 sStats, normVars, engineVars, strategyVars, queryVars, repeatVars, callerVars>>

GetRegionInfo ==
  /\ sInstance # 0
  /\ "getRegionInfo" \notin sCalled
  /\ sRegion' = getRegionInfo(SYNONYM_DATABASE.searchIndex, sTerm)
  /\ sOp' = "getRegionInfo"
  /\ sCalled' = sCalled \cup {"getRegionInfo"}
  /\ UNCHANGED <<SYNONYM_DATABASE, sTerm, sMatches, sHas, sCanonical, sVariations, instance,
                 constructed, sInstance, sStats, normVars, engineVars, strategyVars,
                 queryVars, repeatVars, callerVars>>

GetStats ==
  /\ sInstance # 0
  /\ "getStats" \notin sCalled
  /\ sStats' = getStats(SYNONYM_DATABASE.searchIndex)
  /\ sOp' = "getStats"
  /\ sCalled' = sCalled \cup {"getStats"}
  /\ UNCHANGED <<SYNONYM_DATABASE, sTerm, sMatches, sHas, sCanonical, sVariations, instance,
                 constructed, sInstance, sRegion, normVars, engineVars, strategyVars,
                 queryVars, repeatVars, callerVars>>

NextService ==
  \/ GetInstance
  \/ FindSynonyms
  \/ HasSynonyms
  \/ GetCanonicalTerm
  \/ GetRegionInfo
  \/ GetStats
  \/ FindAllVariations

SpecService == InitService /\ [][NextService]_vars

\* C22: the synonym index is built once and never changes: whatever
\* getInstance, findSynonyms, hasSynonyms, getCanonicalTerm, getRegionInfo,
\* getStats and findAllVariations calls are made, the index keeps the entries
\* it had after construction, and every getInstance returns the same
\* instance (one service is constructed).
IndexBuiltOnce ==
  [][/\ SYNONYM_DATABASE' = SYNONYM_DATABASE
     /\ sInstance # 0 => sInstance' = sInstance
     /\ constructed' <= 1]_vars

\* getInstance has been called twice and every query method once.
WitnessIndexBuiltOnce ==
  /\ sCalled = {"getInstance", "getInstance again", "findSynonyms", "hasSynonyms",
                "getCanonicalTerm", "getRegionInfo", "getStats", "findAllVariations"}
  /\ sInstance = 1
  /\ sStats.totalTerms = Len(SYNONYM_DATABASE.searchIndex)

\* ------------------------------------------------------------------------
\* The same search made twice
\* ------------------------------------------------------------------------

\* The search that has just answered is made again, with the same query and
\* options; Fuse, a function of its index and the query, answers as before.
SearchAgain ==
  /\ op = "search"
  /\ ~repeated
  /\ repeated' = TRUE
  /\ result2' = IF version = "cumulative"
                THEN searchCumulative(items, fuseResults, query, options).result
                ELSE search(items, fuseResults, query, options).result
  /\ UNCHANGED <<normVars, synVars, engineVars, strategyVars, queryVars, serviceVars,
                 callerVars>>

NextRepeat == SearchHierarchical \/ SearchCumulative \/ SearchAgain \/ Return

SpecRepeat == InitEngine /\ [][NextRepeat]_vars

\* C23: search only reads the engine: a step that answers a search leaves
\* the item snapshot (membership and order) and the fuzzy index as they were,
\* and the same search made again, with no updateItems in between, returns
\* an equal result sequence.
SearchOnlyReads ==
  /\ [][op' = "search" => (items' = items /\ fuse' = fuse)]_vars
  /\ [](repeated => result2 = result)

\* A search with several results has been made twice.
WitnessSearchOnlyReads ==
  /\ Searched
  /\ repeated
  /\ Len(result2) >= 2

\* ------------------------------------------------------------------------
\* Properties of createSearchVariations
\* ------------------------------------------------------------------------

\* The term with nothing but its diacritics removed
AccentStrippedOnly(term) == SelectSeq(NFD(term), IsNotCombiningMark)

\* The term with nothing but its casing changed
LowercaseOnly(term) == ToLowerCase(term)

\* C24: createSearchVariations(term) returns a sequence without duplicates
\* and without empty strings whose members are exactly the non-empty ones
\* among the term, its fully normalized form, its accent-stripped-only form
\* and its lowercase-only form.
VariationsAreTheFourForms ==
  nVaried =>
    /\ \A i, j \in 1..Len(nVariations) : i # j => nVariations[i] # nVariations[j]
    /\ \A i \in 1..Len(nVariations) : nVariations[i] # <<>>
    /\ Range(nVariations) =
         {nText, normalize(nText, NoOptions), AccentStrippedOnly(nText), LowercaseOnly(nText)}
           \ {<<>>}

\* ------------------------------------------------------------------------
\* Properties of SynonymMatchStrategy.findMatches
\* ------------------------------------------------------------------------

\* The synonym the query resolves to: its canonical term, normalized, and
\* its confidence
Resolved == findSynonyms(SYNONYM_DATABASE.searchIndex, query)

\* The offsets (from 0) at which C occurs in the name
Offsets(name, C) ==
  {k \in 0..(Len(name) - Len(C)) : \A i \in 1..Len(C) : name[k + i] = C[i]}

\* The score the rules give an item, in millionths, 0 when no rule applies
RuleScore(item, C, confidence) ==
  LET name == normalize(item.name, NoOptions)
      category == normalize(CategoryOf(item), NoOptions)
      offsets == Offsets(name, C)
      offset == CHOOSE k \in offsets : \A l \in offsets : k <= l
  IN  CASE name = C -> confidence * 9500
        [] name # C /\ 0 \in offsets ->
             confidence * (8500 + (Len(C) * 1000) \div Len(name))
        [] name # C /\ 0 \notin offsets /\ offsets # {} /\ Len(C) >= 4 ->
             (confidence * (7000 + (Len(C) * 1500) \div Len(name))
                * (1000 - (offset * 300) \div Len(name))) \div 1000
        [] name # C /\ 0 \notin offsets /\ ~(offsets # {} /\ Len(C) >= 4)
             /\ category = C -> confidence * 8000
        [] OTHER -> 0

GroupsWriting(term) ==
  {g \in 1..Len(Groups) :
     \/ Groups[g].canonical = term
     \/ \E j \in 1..Len(Groups[g].synonyms) : Groups[g].synonyms[j].term = term}

\* C26: every term written in the vocabulary resolves: for every group and
\* every synonym listed in it (accents, ñ and hyphens included),
\* findSynonyms of the synonym returns one match whose canonicalTerm is the
\* group's canonical term, and so does findSynonyms of the canonical term.
WrittenTermsResolve ==
  "findSynonyms" \in sCalled =>
    \A g \in GroupsWriting(sTerm) :
      /\ Len(sMatches) = 1
      /\ "canonicalTerm" \in DOMAIN sMatches[1]
      /\ sMatches[1]["canonicalTerm"] = Groups[g].canonical

\* ------------------------------------------------------------------------
\* Properties of search on queries and fields that normalize to nothing
\* ------------------------------------------------------------------------

\* C27: an item is matched only on text it has: for a query that is not
\* blank but normalizes to the empty string, search returns no results, and
\* an item without a category is never returned as an exact or partial match
\* with an empty matched term.
MatchesOnlyOnText ==
  Searched =>
    /\ (~QueryIsBlank /\ NormalizedQuery = <<>>) => result = <<>>
    /\ \A i \in 1..Len(result) :
         ("category" \notin DOMAIN result[i].item /\ result[i].matchType # "fuzzy") =>
           <<>> \notin Range(result[i].matchedTerms)

\* The candidate results of the three steps for the last query, whichever
\* step answered (the fuzzy ones as far as Fuse was asked)
AllTierCandidates ==
  getExactMatches(items, query, NormalizedQuery)
    \o getFuzzyMatches(fuseResults, query)
    \o getPartialMatches(items, NormalizedQuery)

\* C28: in the hierarchical version minScore never hides an admissible
\* match: whenever some step (exact, fuzzy or partial) has a candidate result
\* with score >= minScore, search returns a non-empty sequence.
MinScoreNeverHides ==
  (Searched /\ version = "hierarchical" /\ ~QueryIsBlank) =>
    ((\E i \in 1..Len(AllTierCandidates) :
        AllTierCandidates[i].score >= MinScoreOf(options))
       => result # <<>>)

\* ------------------------------------------------------------------------
\* The engine and a caller that keeps using the array it passed
\* ------------------------------------------------------------------------

\* What the caller's array may hold after one push, pop or assignment to its
\* first element
CallerEdits(array) ==
  {c \in Catalogs :
     \/ Len(c) = Len(array) + 1 /\ SubSeq(c, 1, Len(array)) = array
     \/ Len(array) > 0 /\ c = SubSeq(array, 1, Len(array) - 1)
     \/ Len(array) > 0 /\ Len(c) = Len(array) /\ c # array
          /\ SubSeq(c, 2, Len(c)) = SubSeq(array, 2, Len(array))}

\* The caller changes the array it passed to the constructor or to
\* updateItems. this.items is that array (constructor: this.items = items),
\* so the engine sees the change; the Fuse index was built from the contents
\* at the time the array was passed.
CallerMutates ==
  /\ version # "none"
  /\ op # "search"
  /\ items = passed
  /\ \E contents \in CallerEdits(items) : items' = contents
  /\ op' = "callerMutates"
  /\ UNCHANGED <<version, fuse, query, options, fuseResults, tiersRun, result, updated,
                 passed, normVars, synVars, strategyVars, queryVars, serviceVars, repeatVars>>

NextCaller ==
  UpdateItems \/ CallerMutates \/ SearchHierarchical \/ SearchCumulative \/ Return

SpecCaller == InitEngine /\ [][NextCaller]_vars

\* C29: the engine's snapshot is isolated from the caller: after the caller
\* has changed the array it passed, a search still returns what it would
\* have returned for the contents at the time the array was passed, and the
\* exact and partial steps and the fuzzy index still cover those items.
SnapshotIsolated ==
  Searched =>
    /\ items = passed
    /\ fuse = NewFuse(passed)
    /\ result = IF version = "cumulative"
                THEN searchCumulative(passed, fuseResults, query, options).result
                ELSE search(passed, fuseResults, query, options).result

\* ------------------------------------------------------------------------
\* Cumulative version: exact results
\* ------------------------------------------------------------------------

NameEqualsQuery(item) == normalize(item.name, NoOptions) = NormalizedQuery

CategoryEqualsQuery(item) == normalize(CategoryOf(item), NoOptions) = NormalizedQuery

\* The score exactSearch gives an item whose name or category equals the query
ExactScoreOf(item) == IF NameEqualsQuery(item) THEN 100 ELSE 95

\* options.minScore lets a result of this score through
AdmitsScore(score) == ~Truthy(MinScoreOf(options)) \/ score >= MinScoreOf(options)

\* C30: in the cumulative version an item whose normalized name or category
\* equals the normalized query is reported with matchType exact and score 1.0
\* (name) or 0.95 (category) and never as a fuzzy or partial result, and
\* every exact result is positioned before every fuzzy or partial result.
\* The item is missing from the list only when the caller's minScore is above
\* its score or maxResults cut the list among exact results of at least its
\* score.
ExactAlwaysReported ==
  (Searched /\ version = "cumulative" /\ ~IsBlank(query)) =>
    /\ \A k \in 1..Len(items) :
         ((NameEqualsQuery(items[k]) \/ CategoryEqualsQuery(items[k]))
            /\ AdmitsScore(ExactScoreOf(items[k]))) =>
           \/ \E i \in 1..Len(result) : result[i].item = items[k]
           \/ /\ Truthy(MaxResultsOf(options))
              /\ Len(result) = MaxResultsOf(options)
              /\ \A i \in 1..Len(result) :
                   /\ result[i].matchType = "exact"
                   /\ result[i].score >= ExactScoreOf(items[k])
    /\ \A i \in 1..Len(result) :
         (NameEqualsQuery(result[i].item) \/ CategoryEqualsQuery(result[i].item)) =>
           /\ result[i].matchType = "exact"
           /\ result[i].score = ExactScoreOf(result[i].item)
    /\ \A i, j \in 1..Len(result) :
         (result[i].matchType = "exact" /\ result[j].matchType # "exact") => i < j

\* A cumulative search whose query equals an item's name, where Fuse also
\* returned that item and where the list goes on with a fuzzy result.
WitnessExactAlwaysReported ==
  /\ Searched
  /\ version = "cumulative"
  /\ Len(result) >= 2
  /\ NameEqualsQuery(result[1].item)
  /\ result[1].matchType = "exact"
  /\ result[1].score = 100
  /\ \E f \in 1..Len(fuseResults) : fuseResults[f].item = result[1].item
  /\ \E j \in 2..Len(result) : result[j].matchType = "fuzzy"

====
